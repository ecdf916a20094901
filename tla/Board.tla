------------------------------- MODULE Board -------------------------------
(***************************************************************************)
(* One kyoku of riichi mahjong as `BoardState` in libriichi/src/arena/     *)
(* board.rs plays it, with the part of the four `PlayerState`s that says   *)
(* which reactions are legal.  An action is one pass of `step`: the        *)
(* reaction of highest priority and everything the code does with it.      *)
(*                                                                         *)
(* The tiles in the hands are left out: a player may have any hand that    *)
(* the melds and the riichi rules allow, so what depends on the hand alone *)
(* (a wait, a pair to pon, tenpai, the points of a win) is chosen freely.  *)
(* A discarded tile is one of a few kinds.  Agents answer with one of the  *)
(* actions offered to them; validate_reaction refuses anything else.       *)
(***************************************************************************)
EXTENDS Kyoku, FiniteSets, Sequences

CONSTANTS
  Oya,          \* the dealer of this kyoku
  Honba,        \* counters on the table when it starts
  Scores0,      \* scores when it starts
  Kyotaku0,     \* riichi sticks on the table when it starts
  Tiles,        \* draws before the wall is exhausted, 70 in the code
  Kinds,        \* kinds of tiles that are discarded
  OyaPoints,    \* what hands of the dealer may be worth: ron, tsumo_ko, tsumo_oya
  KoPoints,     \* what hands of the others may be worth
  MaxYakuman,   \* bound on the yakumans of one hand
  MaxCalls,     \* bound on the melds on the table when one is called, 16 in the code
  Nobody,       \* None of an Option<u8>
  NoTile        \* None of an Option<Tile>

Winds == {"E", "S", "W", "N"}
Jihai == Winds \cup {"dragon"}
Yaokyuu == Jihai \cup {"terminal"}
Points == [ron : Nat, tsumo_ko : Nat, tsumo_oya : Nat]

ASSUME OyaAssumption == Oya \in Seats
ASSUME TableAssumption ==
  /\ Honba \in Nat /\ Kyotaku0 \in Nat
  /\ Scores0 \in [Seats -> Int]
  /\ Tiles \in Nat \ {0}
  /\ MaxYakuman \in Nat /\ MaxCalls \in 0..16
ASSUME KindsAssumption ==
  /\ Kinds \subseteq Yaokyuu \cup {"middle"}
  /\ NoTile \notin Kinds \cup Seq(Kinds)
ASSUME NobodyAssumption == Nobody \notin Seats
ASSUME PointsAssumption == OyaPoints \subseteq Points /\ KoPoints \subseteq Points

VARIABLES
  phase,        \* what the players may do now, that is their last_cans
  actor,        \* the player who drew, called or discarded last
  pai,          \* the kind of tile discarded last
  tsumo_actor,  \* who draws next
  tiles_left, yama, rinshan, dora_indicators,   \* tiles left in each pile
  deal_from_rinshan, need_new_dora_at_discard, need_new_dora_at_tsumo,
  kans, check_four_kan,
  chis, pons, minkans, ankans,   \* melds of each player, by number
  paos,         \* who is liable for a player's yakuman
  riichi_declared, riichi_accepted, riichi_to_be_accepted, accepted_riichis,
  scores, kyotaku,
  can_w_riichi, \* by player: the first go-around still lasts
  can_four_wind, four_wind_tile, can_nagashi_mangan,
  can_renchan,
  outcome,      \* how the kyoku ended: has_hora, has_abortive_ryukyoku and why
  opening       \* history: the discards while they are one wind without a call

turnVars == <<phase, actor, pai, tsumo_actor>>
wallVars == <<tiles_left, yama, rinshan, dora_indicators>>
duesVars == <<deal_from_rinshan, need_new_dora_at_discard, need_new_dora_at_tsumo>>
kanVars == <<kans, check_four_kan>>
meldVars == <<chis, pons, minkans, ankans, paos>>
stickVars == <<riichi_accepted, riichi_to_be_accepted, accepted_riichis, scores, kyotaku>>
riichiVars == <<riichi_declared, stickVars>>
openVars == <<can_w_riichi, can_four_wind, four_wind_tile, can_nagashi_mangan, opening>>
endVars == <<can_renchan, outcome>>
vars == <<turnVars, wallVars, duesVars, kanVars, meldVars, riichiVars, openVars, endVars>>

Zero == [p \in Seats |-> 0]
All == [p \in Seats |-> TRUE]
None == [p \in Seats |-> FALSE]
Shimocha(p) == (p + 1) % 4

AbortiveEnds == {"kyushu", "four_wind", "four_kan", "four_riichi"}
Phases == {"start", "turn", "riichi", "called", "discarded", "kakan", "rinshan", "end"}

TypeOK ==
  /\ phase \in Phases
  /\ actor \in Seats /\ tsumo_actor \in Seats
  /\ pai \in Kinds \cup {NoTile}
  /\ tiles_left \in 0..Tiles /\ yama \in Int /\ rinshan \in Int /\ dora_indicators \in Int
  /\ deal_from_rinshan \in BOOLEAN
  /\ need_new_dora_at_discard \in BOOLEAN /\ need_new_dora_at_tsumo \in BOOLEAN
  /\ kans \in 0..4 /\ check_four_kan \in BOOLEAN
  /\ {chis, pons, minkans, ankans} \subseteq [Seats -> 0..4]
  /\ paos \in [Seats -> Seats \cup {Nobody}]
  /\ riichi_declared \in [Seats -> BOOLEAN] /\ riichi_accepted \in [Seats -> BOOLEAN]
  /\ riichi_to_be_accepted \in Seats \cup {Nobody}
  /\ accepted_riichis \in 0..4
  /\ scores \in [Seats -> Int] /\ kyotaku \in Nat
  /\ can_w_riichi \in [Seats -> BOOLEAN]
  /\ can_four_wind \in BOOLEAN /\ four_wind_tile \in Kinds \cup {NoTile}
  /\ can_nagashi_mangan \in [Seats -> BOOLEAN]
  /\ can_renchan \in BOOLEAN
  /\ outcome \in AbortiveEnds \cup {"none", "hora", "exhaustive"}
  /\ opening \in Seq(Kinds) \cup {NoTile}

(* The melds of a hand, and whether it is closed. *)
Melds(p) == chis[p] + pons[p] + minkans[p] + ankans[p]
KansCount(p) == minkans[p] + ankans[p]
Calls == Melds(0) + Melds(1) + Melds(2) + Melds(3)
IsMenzen(p) == chis[p] = 0 /\ pons[p] = 0 /\ minkans[p] = 0

(* into_state and into_state_with_oya: the board before haipai *)
Init ==
  /\ phase = "start" /\ actor = Oya /\ pai = NoTile /\ tsumo_actor = 0
  /\ tiles_left = Tiles /\ yama = Tiles /\ rinshan = 4 /\ dora_indicators = 5
  /\ deal_from_rinshan = FALSE
  /\ need_new_dora_at_discard = FALSE /\ need_new_dora_at_tsumo = FALSE
  /\ kans = 0 /\ check_four_kan = FALSE
  /\ chis = Zero /\ pons = Zero /\ minkans = Zero /\ ankans = Zero
  /\ paos = [p \in Seats |-> Nobody]
  /\ riichi_declared = None /\ riichi_accepted = None
  /\ riichi_to_be_accepted = Nobody /\ accepted_riichis = 0
  /\ scores = Scores0 /\ kyotaku = Kyotaku0
  /\ can_w_riichi = All /\ can_four_wind = TRUE /\ four_wind_tile = NoTile
  /\ can_nagashi_mangan = All
  /\ can_renchan = FALSE /\ outcome = "none" /\ opening = <<>>

-----------------------------------------------------------------------------

(* step goes on with the reactions, and is not about to abort the kyoku. *)
Playing == accepted_riichis < 4
UndisturbedByKans == Playing   \* mutant: the draw goes on after the fourth kan
Undisturbed == Playing /\ ~check_four_kan
HasDrawn(p) == phase = "turn" /\ p = actor /\ Playing

End(how) == phase' = "end" /\ outcome' = how

(* haipai: the first indicator is turned, the dealer draws. *)
Haipai ==
  /\ phase = "start"
  /\ phase' = "turn" /\ actor' = Oya
  /\ dora_indicators' = dora_indicators - 1
  /\ yama' = yama - 1 /\ tiles_left' = tiles_left - 1
  /\ UNCHANGED <<pai, tsumo_actor, rinshan, duesVars, kanVars, meldVars,
                 riichiVars, openVars, endVars>>

(* mutant: `clone` where the code has `take` *)
CheckRiichiAcceptedAgain ==
  \/ riichi_to_be_accepted = Nobody /\ UNCHANGED stickVars
  \/ \E p \in Seats :
       /\ riichi_to_be_accepted = p
       /\ riichi_accepted' = [riichi_accepted EXCEPT ![p] = TRUE]
       /\ scores' = [scores EXCEPT ![p] = @ - Stick]
       /\ kyotaku' = kyotaku + 1
       /\ accepted_riichis' = (accepted_riichis + 1) % 5
       /\ UNCHANGED riichi_to_be_accepted

(* check_riichi_accepted: the stick of a riichi whose discard nobody won on *)
CheckRiichiAccepted ==
  \/ riichi_to_be_accepted = Nobody /\ UNCHANGED stickVars
  \/ \E p \in Seats :
       /\ riichi_to_be_accepted = p
       /\ riichi_accepted' = [riichi_accepted EXCEPT ![p] = TRUE]
       /\ scores' = [scores EXCEPT ![p] = @ - Stick]
       /\ kyotaku' = kyotaku + 1
       /\ accepted_riichis' = accepted_riichis + 1
       /\ riichi_to_be_accepted' = Nobody

(* mutant: a rinshan tile is not counted as a draw *)
DrawUncounted ==
  /\ phase \in {"discarded", "kakan", "rinshan"} /\ Undisturbed
  /\ tiles_left > 0
  /\ CheckRiichiAccepted
  /\ rinshan' = rinshan - (IF deal_from_rinshan THEN 1 ELSE 0)
  /\ yama' = yama - (IF deal_from_rinshan THEN 0 ELSE 1)
  /\ tiles_left' = tiles_left - (IF deal_from_rinshan THEN 0 ELSE 1)
  /\ deal_from_rinshan' = FALSE
  /\ dora_indicators' = dora_indicators - (IF need_new_dora_at_tsumo THEN 1 ELSE 0)
  /\ need_new_dora_at_tsumo' = FALSE
  /\ phase' = "turn" /\ actor' = tsumo_actor
  /\ UNCHANGED <<pai, tsumo_actor, need_new_dora_at_discard, kanVars, meldVars,
                 riichi_declared, openVars, endVars>>

(* Everybody passes: the next tile is drawn, after a kan from the rinshan.  *)
(* An indicator still due from a kakan before the last kan is turned first. *)
(* The piles are popped without a test here; `context` makes an empty pile  *)
(* an error in the code, a negative number in the model.                    *)
Draw ==
  /\ phase \in {"discarded", "kakan", "rinshan"} /\ Undisturbed
  /\ tiles_left > 0
  /\ CheckRiichiAccepted
  /\ IF deal_from_rinshan THEN rinshan' = rinshan - 1 /\ yama' = yama
                          ELSE yama' = yama - 1 /\ rinshan' = rinshan
  /\ tiles_left' = tiles_left - 1
  /\ deal_from_rinshan' = FALSE
  /\ dora_indicators' = dora_indicators - (IF need_new_dora_at_tsumo THEN 1 ELSE 0)
  /\ need_new_dora_at_tsumo' = FALSE
  /\ phase' = "turn" /\ actor' = tsumo_actor
  /\ UNCHANGED <<pai, tsumo_actor, need_new_dora_at_discard, kanVars, meldVars,
                 riichi_declared, openVars, endVars>>

(* can_riichi of PlayerState::tsumo; the hand is as it must be. *)
Reach(p) ==
  /\ HasDrawn(p) /\ ~riichi_accepted[p]
  /\ IsMenzen(p) /\ tiles_left >= 4 /\ scores[p] >= Stick
  /\ phase' = "riichi"
  /\ riichi_declared' = [riichi_declared EXCEPT ![p] = TRUE]
  /\ riichi_to_be_accepted' = p
  /\ UNCHANGED <<actor, pai, tsumo_actor, wallVars, duesVars, kanVars, meldVars,
                 riichi_accepted, accepted_riichis, scores, kyotaku, openVars, endVars>>

(* mutant: the first go-around of the discarder himself *)
FourWindOwn(p, k) ==
  LET goesOn == can_w_riichi[p]
      result(can, tile, abort) == [can |-> can, tile |-> tile, abort |-> abort]
  IN  IF ~can_four_wind \/ k \notin Winds THEN result(FALSE, four_wind_tile, FALSE)
      ELSE IF ~goesOn THEN result(four_wind_tile = k, four_wind_tile, four_wind_tile = k)
      ELSE IF four_wind_tile = NoTile THEN result(TRUE, k, FALSE)
      ELSE result(four_wind_tile = k, four_wind_tile, FALSE)

(* check_four_wind, after the discard of a tile of kind k by p: what becomes *)
(* of can_four_wind, of four_wind_tile, and whether the kyoku is aborted.    *)
(* The first go-around is over when the next player has discarded before.    *)
FourWind(p, k) ==
  LET goesOn == can_w_riichi[Shimocha(p)]
      result(can, tile, abort) == [can |-> can, tile |-> tile, abort |-> abort]
  IN  IF ~can_four_wind \/ k \notin Winds THEN result(FALSE, four_wind_tile, FALSE)
      ELSE IF ~goesOn THEN result(four_wind_tile = k, four_wind_tile, four_wind_tile = k)
      ELSE IF four_wind_tile = NoTile THEN result(TRUE, k, FALSE)
      ELSE result(four_wind_tile = k, four_wind_tile, FALSE)

(* Four kans, not all of one player: the kyoku ends unless the discard is won. *)
FourKansSplit == kans = 4 /\ \A p \in Seats : KansCount(p) < 4

Dahai(p, k) ==
  LET wind == FourWind(p, k) IN
  /\ p = actor /\ phase \in {"turn", "riichi", "called"} /\ Playing
  /\ pai' = k /\ actor' = p /\ tsumo_actor' = Shimocha(p)
  /\ dora_indicators' = dora_indicators - (IF need_new_dora_at_discard THEN 1 ELSE 0)
  /\ need_new_dora_at_discard' = FALSE
  /\ can_w_riichi' = [can_w_riichi EXCEPT ![p] = FALSE]
  /\ can_nagashi_mangan' = [can_nagashi_mangan EXCEPT ![p] = @ /\ k \in Yaokyuu]
  /\ can_four_wind' = wind.can /\ four_wind_tile' = wind.tile
  /\ opening' = IF \/ opening = NoTile \/ k \notin Winds
                   \/ opening # <<>> /\ (Len(opening) = 4 \/ opening[1] # k)
                THEN NoTile ELSE Append(opening, k)
  /\ IF wind.abort
     THEN /\ End("four_wind") /\ can_renchan' = TRUE
          /\ UNCHANGED check_four_kan
     ELSE /\ phase' = "discarded"
          /\ check_four_kan' = (check_four_kan \/ FourKansSplit)
          /\ UNCHANGED endVars
  /\ UNCHANGED <<tiles_left, yama, rinshan, deal_from_rinshan, need_new_dora_at_tsumo,
                 kans, meldVars, riichiVars>>

(* What a call on the last discard needs whatever its tiles: the caller is   *)
(* not in riichi, has a concealed set left, and it is not the last discard.  *)
MayCall(p) ==
  /\ phase = "discarded" /\ p # actor /\ Undisturbed
  /\ ~riichi_accepted[p] /\ tiles_left > 0 /\ Melds(p) < 4
  /\ Calls < MaxCalls

(* Every call ends the chances of a nagashi mangan of the discarder, of four *)
(* winds, and of the first go-around of the others.  The caller's own        *)
(* can_w_riichi stays as it is: chi, pon and daiminkan of the caller return  *)
(* without clearing it.                                                      *)
Disturb(p) ==
  /\ can_nagashi_mangan' = [can_nagashi_mangan EXCEPT ![actor] = FALSE]
  /\ can_four_wind' = FALSE
  /\ can_w_riichi' = [q \in Seats |-> q = p /\ can_w_riichi[q]]
  /\ opening' = NoTile
  /\ UNCHANGED four_wind_tile

(* update_paos, after p's triplet or quad of `pai` from `actor`: the player  *)
(* who completes three dragons or four winds is liable.  Which honours the   *)
(* open triplets are is left open, that there are enough of them is not.     *)
UpdatePaos(p) ==
  \/ UNCHANGED paos
  \/ /\ paos[p] = Nobody
     /\ \/ pai = "dragon" /\ pons'[p] + minkans'[p] >= 3
        \/ pai \in Winds /\ pons'[p] + minkans'[p] = 4
     /\ paos' = [paos EXCEPT ![p] = actor]

Chi(p) ==
  /\ MayCall(p) /\ p = Shimocha(actor) /\ pai \notin Jihai
  /\ CheckRiichiAccepted
  /\ Disturb(p)
  /\ chis' = [chis EXCEPT ![p] = @ + 1]
  /\ phase' = "called" /\ actor' = p
  /\ UNCHANGED <<pai, tsumo_actor, wallVars, duesVars, kanVars, pons, minkans, ankans,
                 paos, riichi_declared, endVars>>

Pon(p) ==
  /\ MayCall(p)
  /\ CheckRiichiAccepted
  /\ Disturb(p)
  /\ pons' = [pons EXCEPT ![p] = @ + 1]
  /\ UNCHANGED minkans
  /\ UpdatePaos(p)
  /\ phase' = "called" /\ actor' = p
  /\ UNCHANGED <<pai, tsumo_actor, wallVars, duesVars, kanVars, chis, ankans,
                 riichi_declared, endVars>>

(* No fifth kan on the board (kans_on_board of every PlayerState). *)
KanLeft == kans < 4

(* mutant: the indicator still due from the kan before is forgotten *)
OpenKanForgets(p) ==
  /\ need_new_dora_at_discard' = TRUE
  /\ deal_from_rinshan' = TRUE /\ tsumo_actor' = p
  /\ kans' = kans + 1
  /\ minkans' = [minkans EXCEPT ![p] = @ + 1]
  /\ UNCHANGED <<need_new_dora_at_tsumo, check_four_kan, wallVars>>

(* An open kan is paid with an indicator at the next discard; one still due  *)
(* from the kan before is moved up to the next draw.                         *)
OpenKan(p) ==
  /\ need_new_dora_at_tsumo' = (need_new_dora_at_tsumo \/ need_new_dora_at_discard)
  /\ need_new_dora_at_discard' = TRUE
  /\ deal_from_rinshan' = TRUE /\ tsumo_actor' = p
  /\ kans' = kans + 1
  /\ minkans' = [minkans EXCEPT ![p] = @ + 1]
  /\ UNCHANGED <<check_four_kan, wallVars>>

Daiminkan(p) ==
  /\ MayCall(p) /\ KanLeft
  /\ CheckRiichiAccepted
  /\ Disturb(p)
  /\ OpenKan(p)
  /\ UNCHANGED pons
  /\ UpdatePaos(p)
  /\ phase' = "rinshan" /\ actor' = p
  /\ UNCHANGED <<pai, chis, ankans, riichi_declared, endVars>>

(* The added tile of a kakan may be won on, hence a phase of its own. *)
Kakan(p) ==
  /\ HasDrawn(p) /\ KanLeft /\ tiles_left > 0 /\ pons[p] > 0
  /\ OpenKan(p)
  /\ pons' = [pons EXCEPT ![p] = @ - 1]
  /\ phase' = "kakan"
  /\ UNCHANGED <<actor, pai, chis, ankans, paos, riichiVars, openVars, endVars>>

(* mutant: a closed kan does not end the chance of four winds *)
AnkanKeepsWinds(p) ==
  /\ HasDrawn(p) /\ KanLeft /\ tiles_left > 0 /\ Melds(p) < 4
  /\ dora_indicators' = dora_indicators - (IF need_new_dora_at_discard THEN 2 ELSE 1)
  /\ need_new_dora_at_discard' = FALSE
  /\ deal_from_rinshan' = TRUE /\ tsumo_actor' = p
  /\ kans' = kans + 1
  /\ ankans' = [ankans EXCEPT ![p] = @ + 1]
  /\ can_w_riichi' = None /\ opening' = NoTile
  /\ phase' = "rinshan"
  /\ UNCHANGED <<actor, pai, tiles_left, yama, rinshan, need_new_dora_at_tsumo,
                 check_four_kan, chis, pons, minkans, paos, riichiVars,
                 can_four_wind, four_wind_tile, can_nagashi_mangan, endVars>>

(* A closed kan turns the indicator due and its own at once. *)
Ankan(p) ==
  /\ HasDrawn(p) /\ KanLeft /\ tiles_left > 0 /\ Melds(p) < 4
  /\ dora_indicators' = dora_indicators - (IF need_new_dora_at_discard THEN 2 ELSE 1)
  /\ need_new_dora_at_discard' = FALSE
  /\ deal_from_rinshan' = TRUE /\ tsumo_actor' = p
  /\ kans' = kans + 1
  /\ ankans' = [ankans EXCEPT ![p] = @ + 1]
  /\ can_four_wind' = FALSE /\ can_w_riichi' = None /\ opening' = NoTile
  /\ phase' = "rinshan"
  /\ UNCHANGED <<actor, pai, tiles_left, yama, rinshan, need_new_dora_at_tsumo,
                 check_four_kan, chis, pons, minkans, paos, riichiVars,
                 four_wind_tile, can_nagashi_mangan, endVars>>

-----------------------------------------------------------------------------
(* The end of the kyoku: payments and the four kinds of abortive draw.       *)

(* Point::yakuman and Point::tsumo_total *)
Yakuman(is_oya, count) ==
  IF is_oya THEN [ron |-> 48000 * count, tsumo_ko |-> 16000 * count, tsumo_oya |-> 0]
            ELSE [ron |-> 32000 * count, tsumo_ko |-> 8000 * count, tsumo_oya |-> 16000 * count]

TsumoTotal(point, is_oya) ==
  IF is_oya THEN point.tsumo_ko * 3 ELSE point.tsumo_ko * 2 + point.tsumo_oya

(* A hand with a pao holds three dragons or four winds: it is a yakuman. *)
HandPoints(p) ==
  IF paos[p] # Nobody THEN {Yakuman(p = Oya, n) : n \in 1..MaxYakuman}
  ELSE IF p = Oya THEN OyaPoints ELSE KoPoints

(* vec_add_assign of four payments *)
AddUp(deltas) ==
  [p \in Seats |-> deltas[0][p] + deltas[1][p] + deltas[2][p] + deltas[3][p]]

(* handle_hora on a ron: the winner nearest after the target takes the       *)
(* sticks and the counters.  If a player is liable, he and the discarder pay *)
(* half of the ron each, and he the counters.                                *)
Distance(target, p) == (p + 3 - target) % 4
FirstWinner(winners, target) ==
  CHOOSE w \in winners : \A v \in winners : Distance(target, w) <= Distance(target, v)

(* mutant: every winner takes the sticks *)
RonDeltaEach(w, target, ron, first) ==
  LET sticks   == Stick * kyotaku
      counters == IF w = first THEN 300 * Honba ELSE 0
      half     == ron \div 2
  IN  [p \in Seats |->
         IF p = w THEN ron + sticks + counters
         ELSE IF paos[w] = Nobody
              THEN IF p = target THEN - ron - counters ELSE 0
         ELSE (IF p = paos[w] THEN - half - counters ELSE 0)
              - (IF p = target THEN half ELSE 0)]

RonDelta(w, target, ron, first) ==
  LET sticks   == IF w = first THEN Stick * kyotaku ELSE 0
      counters == IF w = first THEN 300 * Honba ELSE 0
      half     == ron \div 2
  IN  [p \in Seats |->
         IF p = w THEN ron + sticks + counters
         ELSE IF paos[w] = Nobody
              THEN IF p = target THEN - ron - counters ELSE 0
         ELSE (IF p = paos[w] THEN - half - counters ELSE 0)
              - (IF p = target THEN half ELSE 0)]

(* ... and on a tsumo: everybody pays, or the liable player everything. *)
TsumoDelta(w, point) ==
  [p \in Seats |->
     IF p = w THEN TsumoTotal(point, w = Oya) + Stick * kyotaku + 300 * Honba
     ELSE IF paos[w] # Nobody
          THEN IF p = paos[w] THEN - point.ron - 300 * Honba ELSE 0
     ELSE IF p = Oya THEN - point.tsumo_oya - 100 * Honba
     ELSE - point.tsumo_ko - 100 * Honba]

(* Payments of the draw: nagashi mangan, or the noten pay the tenpai. *)
NagashiDelta(w) ==
  [p \in Seats |-> IF p = w THEN IF w = Oya THEN 12000 ELSE 8000
                   ELSE IF w = Oya \/ p = Oya THEN -4000 ELSE -2000]

TenpaiDelta(tenpai) ==
  LET pay(plus, minus) == [p \in Seats |-> IF p \in tenpai THEN plus ELSE minus]
  IN  CASE Cardinality(tenpai) = 1 -> pay(3000, -1000)
        [] Cardinality(tenpai) = 2 -> pay(1500, -1500)
        [] Cardinality(tenpai) = 3 -> pay(1000, -3000)
        [] OTHER -> Zero

Pay(deltas) == scores' = [p \in Seats |-> scores[p] + deltas[p]]

(* What the end of a kyoku leaves as it is. *)
tableVars == <<actor, pai, tsumo_actor, wallVars, duesVars, kanVars, meldVars,
               riichi_declared, riichi_accepted, riichi_to_be_accepted,
               accepted_riichis, openVars>>

(* A riichi whose discard is won on is not accepted: its stick is not paid. *)
Ron(winners) ==
  LET first == FirstWinner(winners, actor) IN
  /\ phase \in {"discarded", "kakan"} /\ Playing
  /\ winners # {} /\ actor \notin winners
  /\ \E ron \in [winners -> {point.ron : point \in UNION {HandPoints(w) : w \in winners}}] :
       /\ \A w \in winners : \E point \in HandPoints(w) : ron[w] = point.ron
       /\ Pay(AddUp([w \in Seats |-> IF w \in winners THEN RonDelta(w, actor, ron[w], first)
                                                      ELSE Zero]))
  /\ kyotaku' = 0
  /\ can_renchan' = (Oya \in winners)
  /\ End("hora")
  /\ UNCHANGED tableVars

(* agari_points: a win on the first draw is one yakuman, tenhou or chihou. *)
TsumoPoints(p) == IF can_w_riichi[p] THEN {Yakuman(p = Oya, 1)} ELSE HandPoints(p)

Tsumo(p) ==
  /\ HasDrawn(p)
  /\ \E point \in TsumoPoints(p) : Pay(TsumoDelta(p, point))
  /\ kyotaku' = 0
  /\ can_renchan' = (p = Oya)
  /\ End("hora")
  /\ UNCHANGED tableVars

ExhaustiveRyukyoku(tenpai) ==
  LET nagashi == {p \in Seats : can_nagashi_mangan[p]} IN
  /\ phase \in {"discarded", "kakan", "rinshan"} /\ Undisturbed
  /\ tiles_left = 0
  /\ Pay(IF nagashi = {} THEN TenpaiDelta(tenpai)
         ELSE AddUp([w \in Seats |-> IF w \in nagashi THEN NagashiDelta(w) ELSE Zero]))
  /\ can_renchan' = (Oya \in tenpai)
  /\ End("exhaustive")
  /\ UNCHANGED <<tableVars, kyotaku>>

(* mutant: the dealer does not stay *)
AbortiveRyukyokuPasses(how) ==
  /\ End(how)
  /\ UNCHANGED <<tableVars, scores, kyotaku, can_renchan>>

(* abortive_ryukyoku, with the renchan that `poll` adds at the end *)
AbortiveRyukyoku(how) ==
  /\ End(how) /\ can_renchan' = TRUE
  /\ UNCHANGED <<tableVars, scores, kyotaku>>

(* Nine kinds of terminals and honours in the hand of the first draw. *)
KyuushuKyuuhai(p) == HasDrawn(p) /\ can_w_riichi[p] /\ AbortiveRyukyoku("kyushu")

(* The draw after the fourth riichi has been made; its reaction is not read. *)
FourRiichi == phase \notin {"start", "end"} /\ ~Playing
              /\ AbortiveRyukyoku("four_riichi")

FourKan == phase = "discarded" /\ Playing /\ check_four_kan /\ AbortiveRyukyoku("four_kan")

Next ==
  \/ Haipai
  \/ Draw
  \/ \E p \in Seats : Reach(p) \/ Chi(p) \/ Pon(p) \/ Daiminkan(p) \/ Kakan(p) \/ Ankan(p)
  \/ \E p \in Seats, k \in Kinds : Dahai(p, k)
  \/ \E winners \in SUBSET Seats : Ron(winners)
  \/ \E p \in Seats : Tsumo(p) \/ KyuushuKyuuhai(p)
  \/ \E tenpai \in SUBSET Seats : ExhaustiveRyukyoku(tenpai)
  \/ FourRiichi
  \/ FourKan

Spec == Init /\ [][Next]_vars

-----------------------------------------------------------------------------

(* No point is made or lost in a kyoku: the scores and the sticks on the     *)
(* table sum up to what they were, through every riichi, multiple ron, pao,  *)
(* nagashi mangan and noten payment.                                         *)
PointsConserved == Purse(scores, kyotaku) = Purse(Scores0, Kyotaku0)

(* `end` returns a result that keeps the promise Game::poll builds on. *)
Result == [scores |-> scores, kyotaku |-> kyotaku, can_renchan |-> can_renchan,
           has_hora |-> outcome = "hora", has_abortive |-> outcome \in AbortiveEnds]
KeepsContract == phase = "end" => LegalOutcome(Scores0, Kyotaku0, Result)

(* Each kan has turned its indicator when the next tile is discarded, with   *)
(* any sequence of open, added and closed kans in one turn; until then at    *)
(* most the one of the last kan is missing.                                  *)
DoraFollowsKan ==
  LET turned == 5 - dora_indicators IN
  /\ phase \in {"called", "discarded"} => turned = 1 + kans
  /\ phase \in {"turn", "riichi"} => turned \in kans .. 1 + kans

(* The errors of step, "insufficient dora indicators", "illegal kan: already *)
(* 4 kans", "yama is empty" and "unexpected state when calculating" four     *)
(* winds, are never met: no pile is popped when empty, and a first go-around *)
(* that ends undisturbed has recorded its wind.                              *)
NoErrorPath ==
  /\ yama >= 0 /\ rinshan >= 0 /\ dora_indicators >= 0
  /\ phase \in {"turn", "riichi", "called"} /\ can_four_wind /\ ~can_w_riichi[Shimocha(actor)]
       => four_wind_tile # NoTile

(* A declared riichi is either accepted and paid, or waits for the reactions *)
(* to its discard; it is settled before anybody draws or discards again, and *)
(* a hand in riichi stays closed.                                            *)
RiichiSettled ==
  /\ accepted_riichis = Cardinality({p \in Seats : riichi_accepted[p]})
  /\ \A p \in Seats :
       /\ (riichi_declared[p] /\ ~riichi_accepted[p]) <=> riichi_to_be_accepted = p
       /\ riichi_declared[p] => IsMenzen(p)
       /\ phase # "end" =>
            scores[p] = Scores0[p] - (IF riichi_accepted[p] THEN Stick ELSE 0)
  /\ phase # "end" => kyotaku = Kyotaku0 + accepted_riichis
  /\ phase \in {"turn", "called", "kakan", "rinshan"} => riichi_to_be_accepted = Nobody
  /\ phase = "end" /\ riichi_to_be_accepted # Nobody
       => outcome \in {"hora", "four_kan", "four_wind"}

(* The kyoku is aborted for four winds exactly when the first four discards  *)
(* were one wind and nobody called or declared a kan in between.             *)
FourWindsExact == (outcome = "four_wind") <=> (opening # NoTile /\ Len(opening) = 4)

(* After four kans of several players there is one more discard, to be won   *)
(* on or not: no more draw from the wall and no more call.                   *)
FourKansStop == [][FourKansSplit => yama' = yama /\ Calls' = Calls]_vars

(* A kyoku ends whatever the agents choose: every step brings it nearer to   *)
(* its end, in draws and calls that are left and reactions within a turn.    *)
Rank == CASE phase = "end" -> 0 [] phase \in {"kakan", "rinshan"} -> 3
          [] phase = "discarded" -> 4 [] phase \in {"called", "riichi"} -> 5 [] OTHER -> 6
Measure == IF phase = "end" THEN 0 ELSE 10 * tiles_left + 5 * (16 - Calls) + Rank
EveryStepProgresses == [][0 <= Measure' /\ Measure' < Measure]_vars

(* Tenhou and chihou, the yakuman of a first draw, need a go-around without  *)
(* a call; board.rs promises Tenhou's rules.                                 *)
BlessedWinIsUninterrupted ==
  [][(outcome' = "hora" /\ phase = "turn" /\ can_w_riichi[actor]) => Calls = 0]_vars

=============================================================================
