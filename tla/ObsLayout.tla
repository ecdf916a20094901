----------------------------- MODULE ObsLayout -----------------------------
(***************************************************************************)
(* The rows of the features a network reads (state/obs_repr.rs, and for    *)
(* the hidden tiles arena/board.rs and dataset/invisible.rs).  An encoder  *)
(* writes block after block and moves its index past each of them by       *)
(* hand, on every path; what it writes into the cells is left out.  A      *)
(* block is the number of rows the index moves by and the number of rows,  *)
(* from the first one, that are written; blocks add up.                    *)
(***************************************************************************)
EXTENDS Integers

Versions == 1 .. 4
obs_shape(v) == <<938, 942, 934, 1012>>[v]
oracle_obs_shape(v) == IF v = 1 THEN 211 ELSE 217

Block(moves, writes) == [moves |-> moves, writes |-> writes,
                         inside |-> 0 <= writes /\ writes <= moves]
Rows(n) == Block(n, n)
a ++ b == [moves |-> a.moves + b.moves, writes |-> a.writes + b.writes,
           inside |-> a.inside /\ b.inside]
When(p, block) == IF p THEN block ELSE Rows(0)
Least(a, b) == IF a < b THEN a ELSE b
Times(n, b) == [b EXCEPT !.moves = n * @, !.writes = n * @]

(* IntegerEncoder::encode *)
OneHot == [one_hot |-> TRUE, rescale |-> FALSE, rbf |-> 0]
Rescale(rbf) == [one_hot |-> FALSE, rescale |-> TRUE, rbf |-> rbf]
Rbf(rescale, rbf) == [one_hot |-> FALSE, rescale |-> rescale, rbf |-> rbf]
Integer(v, n, cap, how) ==
  LET m == Least(n, cap)
  IN IF v = 1 THEN Block(cap, m)
     ELSE When(how.one_hot, Block(cap + 1, m + 1)) ++ When(how.rescale, Rows(1))
          ++ When(v \in {2, 3} /\ how.rbf > 0, Rows(how.rbf - 1))

(* encode_tile_set, encode_self_kawa, encode_kawa: a tile set, an item of a river. *)
TileSet == Rows(7)
Self == 4
Other == 8
(* A river: its first 6 items and its last 18, and the rows of those it lacks. *)
Items(len, size) ==
  Times(Least(len, 6), Rows(size)) ++ Block((6 - Least(len, 6)) * size, 0)
  ++ Times(Least(len, 18), Rows(size)) ++ Block((18 - Least(len, 18)) * size, 0)

(* A decision, as far as the layout depends on it: scores, kyoku, honba and
   sticks, the lengths of the rivers, the open sets of each seat, whether the
   player may discard, and what the tables of sp give. *)
Table(v, s) ==
  Rows(4) ++ Rows(3)
  ++ Times(4, Rows(1) ++ When(v \in {2, 3}, Integer(v, s.score \div 100, 500, Rbf(FALSE, 10)))
                     ++ When(v = 4, Rows(1)))
  ++ Block(4, 4) ++ Block(4, IF v = 1 THEN s.kyoku ELSE s.kyoku + 1)
  ++ Integer(v, s.honba, IF v \in {1, 4} THEN 10 ELSE 6, Rbf(v = 4, 3))
  ++ Integer(v, s.kyotaku, IF v \in {1, 4} THEN 10 ELSE 6, Rbf(v = 4, 3))
  ++ Rows(2) ++ When(v # 1, Integer(v, s.kyoku, 7, Rescale(0))) ++ TileSet

Rivers(v, s) ==
  Items(s.kawa, Self) ++ When(v \in {3, 4}, Rows(1))
  ++ Times(3, Items(s.kawa, Other)
              ++ (CASE v = 1 -> Rows(0) [] v = 2 -> Rows(6) [] v \in {3, 4} -> Rows(3)))

Seen(v, s) ==
  Rows(1) ++ Times(4, Integer(v, s.doras, 12, Rescale(3)))
  ++ Integer(v, s.unseen, 23, Rescale(4)) ++ Times(4, TileSet)
  ++ Times(4, Times(s.fuuro, Rows(5)) ++ Block((4 - s.fuuro) * 5, 0))
  ++ Times(4, Rows(1)) ++ When(v # 1, Rows(1) ++ Times(3, Rows(3)) ++ Times(3, Rows(3)))
  ++ Rows(3) ++ Rows(3)

Decision(v, s) ==
  Rows(1) ++ Rows(1) ++ Integer(v, s.shanten, 6, OneHot) ++ Rows(1) ++ Rows(1)
  ++ Rows(3) ++ Rows(5) ++ Rows(1) ++ Rows(3) ++ Times(6, Rows(1))

(* The tables of sp, for v4: they may fail, and their probabilities be absent. *)
Turns == 17
SpTable(s) == Block(3 * Turns, IF s.sp = "probable" THEN 3 * s.turns ELSE 0)
SpUnskipped(v, s) ==                   \* mutant: a failure leaves the last rows out
  IF v # 4 THEN Rows(0)
  ELSE Rows(2) ++ (IF s.sp = "failed" THEN Block(2 * 34 + 2, 0)
                   ELSE Rows(2 * 34) ++ Rows(2) ++ SpTable(s))
Sp(v, s) ==
  IF v # 4 THEN Rows(0)
  ELSE Rows(2)
       ++ (CASE s.sp = "failed" -> Block(2 * 34 + 2 + 3 * Turns, 0)
             [] s.sp # "failed" /\ s.discards -> Rows(2 * 34) ++ Block(2, 1) ++ SpTable(s)
             [] s.sp # "failed" /\ ~s.discards -> Block(2 * 34 + 1, 0) ++ Rows(1) ++ SpTable(s))

encode_obs(v, s) == Table(v, s) ++ Rivers(v, s) ++ Seen(v, s) ++ Decision(v, s) ++ Sp(v, s)

-----------------------------------------------------------------------------
(* The hidden tiles: three opponents, the wall, the dead wall, the indicators. *)
Opponents(v, s) ==
  Times(3, Rows(4) ++ Rows(3)
           ++ (IF v = 1 THEN Block(6, s.shanten) ELSE Block(7, s.shanten + 1) ++ Rows(1))
           ++ Rows(1) ++ Rows(1))
Tiles(n, most) == Times(n, Rows(2)) ++ Block((most - n) * 2, 0)

(* Board: what may still be drawn of the wall; Invisible: what is left of it. *)
Left(s) == 70 - s.yama - s.rinshan
encode_oracle_obs(v, s) ==
  Opponents(v, s) ++ Tiles(Left(s), 69) ++ Tiles(4 - s.rinshan, 4)
  ++ Tiles(5, 5) ++ Tiles(5, 5)
encode_invisible(v, s) ==
  Opponents(v, s) ++ Tiles(70 - s.yama, 69) ++ Tiles(4 - s.rinshan, 4)
  ++ Tiles(5, 5) ++ Tiles(5, 5)

-----------------------------------------------------------------------------
(* Whatever the decision, the encoder ends at the last row of its version's
   shape, and writes no row of a block into the next. *)
Fits(v, s) ==
  /\ encode_obs(v, s).moves = obs_shape(v) /\ encode_obs(v, s).inside
  /\ \A E \in {encode_oracle_obs(v, s), encode_invisible(v, s)} :
       E.moves = oracle_obs_shape(v) /\ E.inside
(* The two encoders of the hidden tiles write the same rows (the comment above
   Invisible::encode). *)
SameOracle(v, s) == encode_oracle_obs(v, s) = encode_invisible(v, s)
=============================================================================
