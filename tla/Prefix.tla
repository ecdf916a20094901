------------------------------- MODULE Prefix -------------------------------
(***************************************************************************)
(* The games of "the x-th discard" of libriichi/src/arena/prefix.rs: hands *)
(* and a wall are made up so that a kyoku, replayed from its deal, shows   *)
(* the rivers of the request and gives the target the hand of the request  *)
(* when it has to decide.  `Deal', `Perturb' (mcmc.rs) and `Assemble' make *)
(* the hands, `Build' lays the wall, and the rest is the replay of the     *)
(* forced discards by custom_kyoku.rs on the board.                        *)
(*                                                                         *)
(* A tile is a token: a tile of a river, of the target's hand, the dora    *)
(* indicator, or one of the pool, which holds what the request leaves      *)
(* open.  A river is a sequence of discards, each from the hand (tedashi)  *)
(* or as drawn (tsumogiri); the river of the target is target_past.        *)
(* HandSize, DeadWall and Yama stand for 13, 13 and 70 tiles.              *)
(***************************************************************************)
EXTENDS Integers, FiniteSets, SequencesExt

CONSTANTS
  HandSize, DeadWall, Yama,
  Requests,     \* the requests looked at
  Orders,       \* shuffles of the pool, as the number of tiles it is rotated by
  MaxSwaps,     \* bound on the accepted swaps of the sampler of mcmc.rs
  NoTile        \* None of an Option<Tile>

Seats == 0..3

Request == [oya : Seats, target : Seats, x : 1..18, rivers : [Seats -> Seq(BOOLEAN)],
            reacts : BOOLEAN]   \* is the first action a call, a ron or a pass?

VARIABLES
  req,      \* the request, its rivers cut by custom_kyoku.rs
  stage,    \* how far the game is
  deals,    \* sub_hands: the deals drawn from the pool
  hands,    \* the deal the game is built from
  swaps,    \* swaps accepted so far
  board,    \* what build_prefix_game_from_hands returns
  hand, wall, turn, last, rivers, index   \* the replay

vars == <<req, stage, deals, hands, swaps, board, hand, wall, turn, last, rivers, index>>
replay == <<hand, wall, turn, last, rivers, index>>

Stages == {"request", "dealt", "ready", "refused", "start", "drawn", "discarded",
           "decision", "error", "derailed"}
Opponents == Seats \ {req.target}
Tokens == HandSize * 4 + 1 + DeadWall + Yama

Total(f(_), S) == FoldSet(LAMBDA p, sum : f(p) + sum, 0, S)

-----------------------------------------------------------------------------
(***************************************************************************)
(* Requests.                                                               *)
(***************************************************************************)
Offset(p, oya) == (p + 4 - oya) % 4

(* A river as the request gives it, cut to what its player can have
   discarded before the target decides. *)
Cut(r, p) ==
  LET past == Len(r.rivers[r.target])
      most == IF Offset(p, r.oya) < Offset(r.target, r.oya) THEN past + 1 ELSE past
  IN  IF p = r.target THEN r.rivers[p]
      ELSE SubSeq(r.rivers[p], 1, IF Len(r.rivers[p]) < most THEN Len(r.rivers[p]) ELSE most)

validate_inputs(r) ==
  /\ Len(r.rivers[r.target]) \in {r.x - 1, r.x}
  /\ \A p \in Seats \ {r.target} : Len(r.rivers[p]) \in (r.x - 2)..(r.x + 1)

expected_discards(p) ==
  IF Offset(p, req.oya) < Offset(req.target, req.oya) THEN req.x ELSE req.x - 1

River(p) == req.rivers[p]
Tsumogiri(p, i) == River(p)[i]
RiverTile(p, i) == <<"river", p, i>>
Own(i) == <<"own", i>>          \* target_14[i - 1]
Pool(i) == <<"pool", i>>
Dora == <<"dora">>
Discarded(p) == {RiverTile(p, i) : i \in DOMAIN River(p)}
OwnTiles == {Own(i) : i \in 1..(HandSize + 1)}

(* fixed_tile_counts, and what is left of the set for the pool. *)
Fixed == OwnTiles \cup {Dora} \cup UNION {Discarded(p) : p \in Seats}
PoolSize == Tokens - Cardinality(Fixed)
AllTiles == Fixed \cup {Pool(i) : i \in 1..PoolSize}

Tedashis(p) ==
  LET tiles == [i \in DOMAIN River(p) |-> RiverTile(p, i)]
  IN  SelectSeq(tiles, LAMBDA t : ~Tsumogiri(p, t[3]))
Free(p) == HandSize - Len(Tedashis(p))

-----------------------------------------------------------------------------
(***************************************************************************)
(* Hands.  The target starts with what it discards from the hand and the   *)
(* first tiles of its final hand, an opponent with what it discards and    *)
(* tiles of the pool.                                                      *)
(***************************************************************************)
TargetHand == Tedashis(req.target) \o [i \in 1..Free(req.target) |-> Own(i)]

(* The pool after a shuffle; hands pop its tiles, one seat after the other. *)
Popped(order, n) == Pool(((order + n - 1) % PoolSize) + 1)
sample_prefix_game(order) ==
  [p \in Seats |->
     IF p = req.target THEN TargetHand
     ELSE LET before == Total(Free, {q \in Opponents : q < p})
          IN  Tedashis(p) \o [i \in 1..Free(p) |-> Popped(order, before + i)]]

FreeTiles(h, p) == {h[p][i] : i \in (Len(Tedashis(p)) + 1)..HandSize}
InHands(h) == UNION {ToSet(h[p]) : p \in Seats}

(* A swap of the sampler: a free tile of an opponent for one of the pool;
   which one makes no difference, the tiles of the pool being alike. *)
Swap(h, p, i, t) ==
  [h EXCEPT ![p][i] = IF i > Len(Tedashis(p)) THEN t ELSE @]

(* Each opponent takes the first deal of its resampled list, from place i
   on, whose free tiles nobody else has taken; if there is none the game is
   one of the deals as it is.  `sub_idx[p]' is the resampled list of p. *)
Compatible(taken, tiles) == taken \cap tiles = {}
Pick(acc, p, sub_idx, i) ==
  LET n == Len(sub_idx[p])
      at(d) == sub_idx[p][((i + d - 1) % n) + 1]
      fits == {d \in 0..(n - 1) : Compatible(acc.taken, FreeTiles(deals[at(d)], p))}
      d0 == CHOOSE d \in fits : \A e \in fits : d <= e
  IN  IF ~acc.ok \/ fits = {} THEN [acc EXCEPT !.ok = FALSE]
      ELSE [acc EXCEPT !.hands[p] = deals[at(d0)][p],
                       !.taken = @ \cup FreeTiles(deals[at(d0)], p)]

assemble_marginal_games(sub_idx, i) ==
  LET own == deals[((i - 1) % Len(deals)) + 1]
      acc == FoldLeft(LAMBDA a, p : Pick(a, p, sub_idx, i),
                      [ok |-> TRUE, hands |-> own, taken |-> {}],
                      SelectSeq(<<0, 1, 2, 3>>, LAMBDA p : p # req.target))
  IN  IF acc.ok THEN acc.hands ELSE own

-----------------------------------------------------------------------------
(***************************************************************************)
(* The wall.  Turns go around the table; a turn with a discard has a draw  *)
(* before it, the target's next one is the decision point.                 *)
(***************************************************************************)
Turns == [n \in 1..(4 * (req.x + 1)) |->
            [row |-> (n - 1) \div 4 + 1, seat |-> (req.oya + n - 1) % 4]]
HasDiscard(t) == t.row <= Len(River(t.seat))

(* The draw before the i-th discard of p. *)
DrawOwnFirst(acc, p, i) ==   \* mutant: the kept draws start one tile early
  IF Tsumogiri(p, i) THEN [acc EXCEPT !.draws = Append(@, RiverTile(p, i))]
  ELSE IF p = req.target
  THEN [acc EXCEPT !.draws = Append(@, Own(Free(p) + acc.kept)), !.kept = @ + 1]
  ELSE [acc EXCEPT !.draws = Append(@, Last(acc.pool)), !.pool = Front(@)]
DrawBefore(acc, p, i) ==
  IF Tsumogiri(p, i) THEN [acc EXCEPT !.draws = Append(@, RiverTile(p, i))]
  ELSE IF p = req.target
  THEN [acc EXCEPT !.draws = Append(@, Own(Free(p) + acc.kept + 1)), !.kept = @ + 1]
  ELSE [acc EXCEPT !.draws = Append(@, Last(acc.pool)), !.pool = Front(@)]

(* The first draw, of the dealer. *)
FirstDraw(acc) ==
  IF River(req.oya) # <<>> THEN DrawBefore(acc, req.oya, 1)
  ELSE IF req.oya = req.target THEN [acc EXCEPT !.draws = <<Own(HandSize + 1)>>]
  ELSE [acc EXCEPT !.draws = <<Last(acc.pool)>>, !.pool = Front(@)]

Force(acc, t) ==
  [acc EXCEPT !.steps = Append(@, [actor |-> t.seat, tile |-> RiverTile(t.seat, t.row),
                                   tsumogiri |-> Tsumogiri(t.seat, t.row)])]

TakeTurn(acc, t) ==
  IF acc.stop THEN acc
  ELSE IF HasDiscard(t)
  THEN Force(IF t = Turns[1] THEN acc ELSE DrawBefore(acc, t.seat, t.row), t)
  ELSE IF t.seat = req.target
  THEN [acc EXCEPT !.draws = Append(@, Own(HandSize + 1)), !.stop = TRUE]
  ELSE [acc EXCEPT !.stop = \A p \in Seats : t.row > Len(River(p))]

(* What the wall is laid from: the set without the deal, the indicator, the
   tiles the target keeps or has drawn last, and the tsumogiri discards. *)
Leftover(h) ==
  SelectSeq([i \in 1..PoolSize |-> Pool(i)], LAMBDA t : t \notin InHands(h))

Laid(h) ==
  LET pool == Leftover(h)
      acc == FoldLeft(TakeTurn, FirstDraw([pool |-> pool, draws |-> <<>>, steps |-> <<>>,
                                           kept |-> 0, stop |-> FALSE]), Turns)
      live == Len(acc.pool) - DeadWall
  IN  [haipai |-> h, yama |-> SubSeq(acc.pool, 1, live) \o Reverse(acc.draws),
       dead |-> <<Dora>> \o SubSeq(acc.pool, live + 1, Len(acc.pool)),
       forced_steps |-> acc.steps]

-----------------------------------------------------------------------------
NoBoard == [haipai |-> <<>>, yama |-> <<>>, dead |-> <<>>, forced_steps |-> <<>>]
NoReplay == /\ hand = [p \in Seats |-> {}] /\ wall = <<>> /\ turn = 0
            /\ last = NoTile /\ rivers = [p \in Seats |-> <<>>] /\ index = 1

Init ==
  /\ \E r \in Requests : req = [r EXCEPT !.rivers = [p \in Seats |-> Cut(r, p)]]
  /\ stage = "request" /\ deals = <<>> /\ hands = <<>> /\ swaps = 0
  /\ board = NoBoard /\ NoReplay

Deal ==
  /\ stage = "request"
  /\ IF validate_inputs(req)
     THEN /\ stage' = "dealt"
          /\ \E order \in Orders :
               deals' = <<sample_prefix_game(0), sample_prefix_game(order)>>
     ELSE stage' = "refused" /\ UNCHANGED deals
  /\ UNCHANGED <<req, hands, swaps, board, replay>>

(* A game of the first pass, of the uniform mode, or the start of a chain. *)
UseDeal ==
  /\ stage = "dealt"
  /\ hands' = deals[1] /\ stage' = "ready"
  /\ UNCHANGED <<req, deals, swaps, board, replay>>

Perturb ==
  /\ stage = "ready" /\ swaps < MaxSwaps
  /\ Leftover(hands) # <<>>
  /\ \E p \in Opponents, i \in 1..HandSize :
       hands' = Swap(hands, p, i, Head(Leftover(hands)))
  /\ swaps' = swaps + 1
  /\ UNCHANGED <<req, stage, deals, board, replay>>

(* A game of the third pass: the likelihoods of the first may give any
   resampled lists. *)
Assemble ==
  /\ stage = "dealt"
  /\ \E sub_idx \in [Opponents -> [1..2 -> 1..2]], i \in 1..2 :
       hands' = assemble_marginal_games(sub_idx, i)
  /\ stage' = "ready" /\ swaps' = MaxSwaps
  /\ UNCHANGED <<req, deals, board, replay>>

(* remove_tile fails when a tile is in two hands, or not in the set. *)
Removable(h) ==
  /\ \A p, q \in Seats : p # q => ToSet(h[p]) \cap ToSet(h[q]) = {}
  /\ InHands(h) \subseteq AllTiles

Build ==
  /\ stage = "ready"
  /\ IF Removable(hands)
     THEN board' = Laid(hands) /\ stage' = "start"
     ELSE stage' = "error" /\ UNCHANGED board
  /\ UNCHANGED <<req, deals, hands, swaps, replay>>

-----------------------------------------------------------------------------
(***************************************************************************)
(* The replay.                                                             *)
(***************************************************************************)
Draw(p) ==
  /\ wall # <<>>
  /\ turn' = p /\ last' = Last(wall) /\ wall' = Front(wall)
  /\ hand' = [hand EXCEPT ![p] = @ \cup {Last(wall)}]

Haipai ==
  /\ stage = "start" /\ stage' = "drawn"
  /\ turn' = req.oya /\ last' = Last(board.yama) /\ wall' = Front(board.yama)
  /\ hand' = [p \in Seats |-> ToSet(board.haipai[p]) \cup
                              (IF p = req.oya THEN {Last(board.yama)} ELSE {})]
  /\ UNCHANGED <<req, deals, hands, swaps, board, rivers, index>>

Step == board.forced_steps[index]
Forced == index <= Len(board.forced_steps)

(* validate_reaction *)
Legal(s) == s.tile \in hand[s.actor] /\ (s.tsumogiri => last = s.tile)

ForcedDiscard ==
  /\ stage = "drawn" /\ Forced /\ Step.actor = turn
  /\ IF Legal(Step)
     THEN /\ hand' = [hand EXCEPT ![turn] = @ \ {Step.tile}]
          /\ rivers' = [rivers EXCEPT ![turn] = Append(@, Step.tile)]
          /\ stage' = "discarded" /\ index' = index + 1
     ELSE stage' = "error" /\ UNCHANGED <<hand, rivers, index>>
  /\ UNCHANGED <<req, deals, hands, swaps, board, wall, turn, last>>

(* Nobody answers for the player to move, the board takes that as a pass
   and deals it a second tile. *)
Unanswered ==
  /\ stage = "drawn"
  /\ IF Forced THEN Step.actor # turn ELSE req.target # turn
  /\ Draw(turn) /\ stage' = "derailed"
  /\ UNCHANGED <<req, deals, hands, swaps, board, rivers, index>>

(* Every call on a discard of the prefix is passed. *)
NextDraw ==
  /\ stage = "discarded"
  /\ IF wall # <<>>
     THEN Draw((turn + 1) % 4) /\ stage' = "drawn"
     ELSE stage' = "error" /\ UNCHANGED <<hand, wall, turn, last>>
  /\ UNCHANGED <<req, deals, hands, swaps, board, rivers, index>>

(* The target decides: on its draw, or on a discard it may call if the
   first action of the request is an answer to one. *)
Decide ==
  /\ ~Forced
  /\ \/ stage = "drawn" /\ turn = req.target
     \/ stage = "discarded" /\ turn # req.target /\ req.reacts
  /\ stage' = "decision"
  /\ UNCHANGED <<req, deals, hands, swaps, board, replay>>

Next == \/ Deal \/ UseDeal \/ Perturb \/ Assemble \/ Build
        \/ Haipai \/ ForcedDiscard \/ Unanswered \/ NextDraw \/ Decide

Spec == Init /\ [][Next]_vars

-----------------------------------------------------------------------------
(* The rivers are what the players discard before the target has to decide,
   none left out: on its own draw, or on the last of the discards. *)
OnTurn ==
  /\ ~req.reacts
  /\ Len(River(req.target)) = req.x - 1
  /\ \A p \in Opponents : Len(River(p)) = expected_discards(p)
OnCall ==
  /\ req.reacts
  /\ LET played == {n \in DOMAIN Turns : HasDiscard(Turns[n])} IN
       /\ \E n \in DOMAIN Turns : played = 1..n /\ Turns[n].seat # req.target

Built == board # NoBoard

(* Every tile of the set is dealt exactly once, whichever deals the hands
   were taken from: no tile lies in two places and none is missing.  The
   header of prefix.rs says so of the pool. *)
Everywhere == board.haipai[0] \o board.haipai[1] \o board.haipai[2] \o board.haipai[3]
              \o board.yama \o board.dead
DealtOnce == Len(Everywhere) = Tokens /\ ToSet(Everywhere) = AllTiles

(* The dealer decides on the first draw of the kyoku: Build lays the 14th
   tile of the target as the dealer's first draw and again as the draw of
   the decision, so the wall has one tile too many, the next one drawn. *)
DealerFirst == OnTurn /\ req.oya = req.target /\ req.x = 1
DealtAgain ==
  /\ Len(Everywhere) = Tokens + 1 /\ ToSet(Everywhere) = AllTiles
  /\ LET n == Len(board.yama) IN board.yama[n] = Own(HandSize + 1) /\ board.yama[n - 1] = board.yama[n]

(* What holds of all requests on a turn: every tile is dealt exactly once,
   but for the dealer's first decision, where exactly the tile on the wall
   after the decision is one the dealer already holds. *)
DealtAsAsked == Built /\ OnTurn => IF DealerFirst THEN DealtAgain ELSE DealtOnce

(* A request in turn order is replayed to its decision point: nobody is left
   out and no forced discard is refused, and there the target holds the hand
   and the players have the rivers of the request. *)
ReplayIsExact ==
  /\ OnTurn => stage \notin {"refused", "error", "derailed"}
  /\ stage = "decision" /\ (OnTurn \/ (OnCall /\ turn # req.target)) =>
         /\ hand[req.target] = IF OnTurn THEN OwnTiles ELSE OwnTiles \ {Own(HandSize + 1)}
         /\ \A p \in Seats : rivers[p] = [i \in DOMAIN River(p) |-> RiverTile(p, i)]
         /\ \A p \in Opponents : Cardinality(hand[p]) = HandSize
=============================================================================
