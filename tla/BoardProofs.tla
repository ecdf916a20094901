---------------------------- MODULE BoardProofs ----------------------------
(***************************************************************************)
(* What module Board promises for every table: any dealer, scores, sticks, *)
(* counters, length of the wall, kinds of tiles and values of the hands.   *)
(***************************************************************************)
EXTENDS Board, FiniteSetTheorems, SequenceTheorems, TLAPS

(* No hand has more than four melds. *)
MeldsInv == \A p \in Seats : Melds(p) <= 4

(* The parts of the type invariant. *)
TurnOK == /\ phase \in Phases /\ actor \in Seats /\ tsumo_actor \in Seats
          /\ pai \in Kinds \cup {NoTile}
WallOK == /\ tiles_left \in 0..Tiles /\ yama \in Int /\ rinshan \in Int
          /\ dora_indicators \in Int
DuesOK == /\ deal_from_rinshan \in BOOLEAN
          /\ need_new_dora_at_discard \in BOOLEAN /\ need_new_dora_at_tsumo \in BOOLEAN
KansOK == kans \in 0..4 /\ check_four_kan \in BOOLEAN
MeldsOK == /\ chis \in [Seats -> 0..4] /\ pons \in [Seats -> 0..4]
           /\ minkans \in [Seats -> 0..4] /\ ankans \in [Seats -> 0..4]
           /\ paos \in [Seats -> Seats \cup {Nobody}]
           /\ MeldsInv
SticksOK == /\ riichi_accepted \in [Seats -> BOOLEAN]
            /\ riichi_to_be_accepted \in Seats \cup {Nobody}
            /\ accepted_riichis \in 0..4
            /\ scores \in [Seats -> Int] /\ kyotaku \in Nat
DeclaredOK == riichi_declared \in [Seats -> BOOLEAN]
OpenOK == /\ can_w_riichi \in [Seats -> BOOLEAN]
          /\ can_four_wind \in BOOLEAN /\ four_wind_tile \in Kinds \cup {NoTile}
          /\ can_nagashi_mangan \in [Seats -> BOOLEAN]
          /\ opening \in Seq(Kinds) \cup {NoTile}
EndOK == /\ can_renchan \in BOOLEAN
         /\ outcome \in AbortiveEnds \cup {"none", "hora", "exhaustive"}

(* Before the first draw the wall is whole. *)
StartInv == phase = "start" => tiles_left = Tiles /\ kans = 0

TypeInv == /\ TurnOK /\ WallOK /\ DuesOK /\ KansOK /\ MeldsOK
           /\ SticksOK /\ DeclaredOK /\ OpenOK /\ EndOK /\ StartInv

LEMMA TypeInvImpliesTypeOK == TypeInv => TypeOK
  BY DEF TypeInv, TypeOK, TurnOK, WallOK, DuesOK, KansOK, MeldsOK, SticksOK, DeclaredOK,
         OpenOK, EndOK

(* What a step leaves alone keeps its type. *)
LEMMA Unchanged ==
  ASSUME TypeInv
  PROVE  /\ UNCHANGED turnVars => TurnOK'
         /\ UNCHANGED wallVars => WallOK'
         /\ UNCHANGED duesVars => DuesOK'
         /\ UNCHANGED kanVars => KansOK'
         /\ UNCHANGED meldVars => MeldsOK'
         /\ UNCHANGED stickVars => SticksOK'
         /\ UNCHANGED riichi_declared => DeclaredOK'
         /\ UNCHANGED openVars => OpenOK'
         /\ UNCHANGED endVars => EndOK'
<1> USE DEF TypeInv, turnVars, wallVars, duesVars, kanVars, meldVars, stickVars, openVars, endVars
<1>1. UNCHANGED turnVars => TurnOK'
  BY DEF TurnOK
<1>2. UNCHANGED wallVars => WallOK'
  BY DEF WallOK
<1>3. UNCHANGED duesVars => DuesOK'
  BY DEF DuesOK
<1>4. UNCHANGED kanVars => KansOK'
  BY DEF KansOK
<1>5. UNCHANGED meldVars => MeldsOK'
  BY DEF MeldsOK, MeldsInv, Melds
<1>6. UNCHANGED stickVars => SticksOK'
  BY DEF SticksOK
<1>7. UNCHANGED riichi_declared => DeclaredOK'
  BY DEF DeclaredOK
<1>8. UNCHANGED openVars => OpenOK'
  BY DEF OpenOK
<1>9. UNCHANGED endVars => EndOK'
  BY DEF EndOK
<1> QED BY <1>1, <1>2, <1>3, <1>4, <1>5, <1>6, <1>7, <1>8, <1>9

(* The constants, as the proofs use them. *)
LEMMA Constants ==
  /\ Seats = {0, 1, 2, 3} /\ Oya \in Seats /\ Nobody \notin Seats
  /\ Honba \in Nat /\ Kyotaku0 \in Nat /\ Tiles \in Nat \ {0}
  /\ Scores0 \in [Seats -> Int]
  /\ NoTile \notin Kinds
  BY OyaAssumption, NobodyAssumption, TableAssumption, KindsAssumption DEF Seats

LEMMA ShimochaIsSeat == ASSUME NEW p \in Seats PROVE Shimocha(p) \in Seats /\ Shimocha(p) # p
  BY DEF Seats, Shimocha

-----------------------------------------------------------------------------
(* Types of the payments. *)

LEMMA YakumanType == \A n \in Nat, p \in Seats : Yakuman(p = Oya, n) \in Points
<1> SUFFICES ASSUME NEW n \in Nat, NEW p \in Seats PROVE Yakuman(p = Oya, n) \in Points
  OBVIOUS
<1>1. CASE p = Oya
  BY <1>1 DEF Yakuman, Points
<1>2. CASE p # Oya
  BY <1>2 DEF Yakuman, Points
<1> QED BY <1>1, <1>2

LEMMA HandPointsType == ASSUME TypeOK, NEW p \in Seats PROVE HandPoints(p) \subseteq Points
<1>1. \A n \in 1..MaxYakuman : Yakuman(p = Oya, n) \in Points
  BY YakumanType, TableAssumption
<1>2. OyaPoints \subseteq Points /\ KoPoints \subseteq Points
  BY PointsAssumption
<1> QED BY <1>1, <1>2 DEF HandPoints

LEMMA TsumoPointsType == ASSUME TypeOK, NEW p \in Seats PROVE TsumoPoints(p) \subseteq Points
<1>1. Yakuman(p = Oya, 1) \in Points
  BY YakumanType
<1>2. HandPoints(p) \subseteq Points
  BY HandPointsType
<1> QED BY <1>1, <1>2 DEF TsumoPoints

LEMMA AddUpType ==
  ASSUME NEW deltas \in [Seats -> [Seats -> Int]]
  PROVE  AddUp(deltas) \in [Seats -> Int]
  BY Constants DEF AddUp

LEMMA RonDeltaType ==
  ASSUME TypeOK, NEW w \in Seats, NEW target \in Seats, NEW ron \in Nat, NEW first
  PROVE  RonDelta(w, target, ron, first) \in [Seats -> Int]
<1>1. /\ ron \div 2 \in Int /\ Stick * kyotaku \in Int /\ 300 * Honba \in Int
  BY Constants DEF TypeOK, Stick
<1> DEFINE sticks == IF w = first THEN Stick * kyotaku ELSE 0
           counters == IF w = first THEN 300 * Honba ELSE 0
<1>2. sticks \in Int /\ counters \in Int
  BY <1>1
<1> HIDE DEF sticks, counters
<1>3. RonDelta(w, target, ron, first) =
        [p \in Seats |->
         IF p = w THEN ron + sticks + counters
         ELSE IF paos[w] = Nobody
              THEN IF p = target THEN - ron - counters ELSE 0
         ELSE (IF p = paos[w] THEN - (ron \div 2) - counters ELSE 0)
              - (IF p = target THEN ron \div 2 ELSE 0)]
  BY DEF RonDelta, sticks, counters
<1> QED BY <1>1, <1>2, <1>3

LEMMA TsumoDeltaType ==
  ASSUME TypeOK, NEW w \in Seats, NEW point \in Points
  PROVE  TsumoDelta(w, point) \in [Seats -> Int]
<1>1. point.ron \in Int /\ point.tsumo_ko \in Int /\ point.tsumo_oya \in Int
  BY DEF Points
<1>2. TsumoTotal(point, w = Oya) \in Int
  BY <1>1 DEF TsumoTotal
<1>3. Stick * kyotaku \in Int /\ 300 * Honba \in Int /\ 100 * Honba \in Int
  BY Constants DEF TypeOK, Stick
<1> QED BY <1>1, <1>2, <1>3 DEF TsumoDelta

LEMMA NagashiDeltaType == ASSUME NEW w \in Seats PROVE NagashiDelta(w) \in [Seats -> Int]
  BY DEF NagashiDelta

LEMMA TenpaiDeltaType == ASSUME NEW tenpai PROVE TenpaiDelta(tenpai) \in [Seats -> Int]
  BY DEF TenpaiDelta, Zero

LEMMA PayType ==
  ASSUME TypeOK, NEW deltas \in [Seats -> Int], Pay(deltas)
  PROVE  scores' \in [Seats -> Int]
  BY DEF TypeOK, Pay

-----------------------------------------------------------------------------
(* Types of the steps. *)

LEMMA InitTypeInv == Init => TypeInv
<1> SUFFICES ASSUME Init PROVE TypeInv
  OBVIOUS
<1> USE Constants DEF Init
<1>1. TurnOK /\ StartInv
  BY DEF TurnOK, Phases, StartInv
<1>5. WallOK
  BY DEF WallOK
<1>6. DuesOK
  BY DEF DuesOK
<1>8. KansOK
  <2>1. kans \in 0..4
    OBVIOUS
  <2>2. check_four_kan \in BOOLEAN
    OBVIOUS
  <2> QED BY <2>1, <2>2 DEF KansOK
<1>2. MeldsOK
  <2>1. /\ chis \in [Seats -> 0..4] /\ pons \in [Seats -> 0..4]
        /\ minkans \in [Seats -> 0..4] /\ ankans \in [Seats -> 0..4]
    BY DEF Zero
  <2>2. paos \in [Seats -> Seats \cup {Nobody}]
    OBVIOUS
  <2>3. MeldsInv
    BY DEF MeldsInv, Melds, Zero
  <2> QED BY <2>1, <2>2, <2>3 DEF MeldsOK
<1>3. SticksOK
  BY DEF SticksOK, None
<1>7. DeclaredOK /\ EndOK
  BY DEF DeclaredOK, EndOK, None
<1>4. OpenOK
  <2>1. <<>> \in Seq(Kinds)
    OBVIOUS
  <2> QED BY <2>1 DEF OpenOK, All
<1> QED BY <1>1, <1>2, <1>3, <1>4, <1>5, <1>6, <1>7, <1>8 DEF TypeInv

LEMMA HaipaiTypeInv == ASSUME TypeInv, Haipai PROVE TypeInv'
<1>1. TurnOK' /\ StartInv'
  BY Constants DEF Haipai, TypeInv, TurnOK, Phases, StartInv
<1>2. WallOK'
  BY Constants DEF Haipai, TypeInv, WallOK, StartInv
<1> QED BY <1>1, <1>2, Unchanged DEF Haipai, riichiVars, TypeInv

LEMMA CheckRiichiType ==
  ASSUME TypeInv, Playing, CheckRiichiAccepted
  PROVE  SticksOK'
<1>1. CASE UNCHANGED stickVars
  BY <1>1, Unchanged
<1>2. ASSUME NEW p \in Seats,
             riichi_accepted' = [riichi_accepted EXCEPT ![p] = TRUE],
             scores' = [scores EXCEPT ![p] = @ - Stick],
             kyotaku' = kyotaku + 1,
             accepted_riichis' = accepted_riichis + 1,
             riichi_to_be_accepted' = Nobody
      PROVE  SticksOK'
  <2>1. riichi_accepted' \in [Seats -> BOOLEAN]
    BY <1>2 DEF TypeInv, SticksOK
  <2>2. scores' \in [Seats -> Int] /\ kyotaku' \in Nat /\ accepted_riichis' \in 0..4
    BY <1>2 DEF TypeInv, SticksOK, Stick, Playing
  <2> QED BY <1>2, <2>1, <2>2 DEF SticksOK
<1> QED BY <1>1, <1>2 DEF CheckRiichiAccepted

LEMMA DrawTypeInv == ASSUME TypeInv, Draw PROVE TypeInv'
<1>1. TurnOK' /\ StartInv'
  BY DEF Draw, TypeInv, TurnOK, Phases, StartInv
<1>2. WallOK'
  BY Constants DEF Draw, TypeInv, WallOK
<1>3. SticksOK'
  BY CheckRiichiType DEF Draw, Undisturbed
<1>4. DuesOK'
  BY DEF Draw, TypeInv, DuesOK
<1> QED BY <1>1, <1>2, <1>3, <1>4, Unchanged DEF Draw, TypeInv

LEMMA ReachTypeInv == ASSUME TypeInv, NEW p \in Seats, Reach(p) PROVE TypeInv'
<1>1. TurnOK' /\ StartInv'
  BY DEF Reach, TypeInv, TurnOK, Phases, StartInv
<1>2. SticksOK'
  BY DEF Reach, TypeInv, SticksOK
<1>3. DeclaredOK'
  BY DEF Reach, TypeInv, DeclaredOK
<1> QED BY <1>1, <1>2, <1>3, Unchanged DEF Reach, TypeInv

LEMMA FourWindType ==
  ASSUME TypeInv, NEW p \in Seats, NEW k \in Kinds
  PROVE  /\ FourWind(p, k).can \in BOOLEAN /\ FourWind(p, k).abort \in BOOLEAN
         /\ FourWind(p, k).tile \in Kinds \cup {NoTile}
  BY DEF TypeInv, OpenOK, FourWind

LEMMA DahaiTypeInv == ASSUME TypeInv, NEW p \in Seats, NEW k \in Kinds, Dahai(p, k) PROVE TypeInv'
<1>1. phase' \in {"end", "discarded"} /\ EndOK'
  <2>1. CASE FourWind(p, k).abort
    BY <2>1 DEF Dahai, End, EndOK, AbortiveEnds
  <2>2. CASE ~FourWind(p, k).abort
    BY <2>2, Unchanged DEF Dahai
  <2> QED BY <2>1, <2>2
<1>2. TurnOK' /\ StartInv'
  BY <1>1, ShimochaIsSeat DEF Dahai, TypeInv, TurnOK, Phases, StartInv
<1>3. WallOK'
  BY DEF Dahai, TypeInv, WallOK
<1>4. DuesOK'
  BY DEF Dahai, TypeInv, DuesOK
<1>5. KansOK'
  BY DEF Dahai, TypeInv, KansOK, FourKansSplit
<1>6. OpenOK'
  <2>1. /\ can_w_riichi' \in [Seats -> BOOLEAN]
        /\ can_nagashi_mangan' \in [Seats -> BOOLEAN]
    BY DEF Dahai, TypeInv, OpenOK
  <2>2. can_four_wind' \in BOOLEAN /\ four_wind_tile' \in Kinds \cup {NoTile}
    BY FourWindType DEF Dahai
  <2>3. opening' \in Seq(Kinds) \cup {NoTile}
    <3>1. CASE opening' = NoTile
      BY <3>1
    <3>2. CASE opening # NoTile /\ opening' = Append(opening, k)
      BY <3>2 DEF TypeInv, OpenOK
    <3> QED BY <3>1, <3>2 DEF Dahai
  <2> QED BY <2>1, <2>2, <2>3 DEF OpenOK
<1> QED BY <1>1, <1>2, <1>3, <1>4, <1>5, <1>6, Unchanged DEF Dahai, TypeInv, riichiVars

(* The part of a call that Chi, Pon and Daiminkan have in common. *)
LEMMA DisturbType ==
  ASSUME TypeInv, NEW p \in Seats, Disturb(p)
  PROVE  OpenOK'
  BY DEF Disturb, TypeInv, OpenOK, TurnOK

LEMMA PaosType ==
  ASSUME TypeInv, NEW p \in Seats, UpdatePaos(p)
  PROVE  paos' \in [Seats -> Seats \cup {Nobody}]
  BY DEF UpdatePaos, TypeInv, MeldsOK, TurnOK

LEMMA ChiTypeInv == ASSUME TypeInv, NEW p \in Seats, Chi(p) PROVE TypeInv'
<1>1. TurnOK' /\ StartInv'
  BY DEF Chi, TypeInv, TurnOK, Phases, StartInv
<1>2. SticksOK' /\ OpenOK'
  BY CheckRiichiType, DisturbType DEF Chi, MayCall, Undisturbed
<1>3. MeldsOK'
  BY DEF Chi, MayCall, Melds, TypeInv, MeldsOK, MeldsInv
<1> QED BY <1>1, <1>2, <1>3, Unchanged DEF Chi, TypeInv

LEMMA PonTypeInv == ASSUME TypeInv, NEW p \in Seats, Pon(p) PROVE TypeInv'
<1>1. TurnOK' /\ StartInv'
  BY DEF Pon, TypeInv, TurnOK, Phases, StartInv
<1>2. SticksOK' /\ OpenOK'
  BY CheckRiichiType, DisturbType DEF Pon, MayCall, Undisturbed
<1>3. MeldsOK'
  BY PaosType DEF Pon, MayCall, Melds, TypeInv, MeldsOK, MeldsInv
<1> QED BY <1>1, <1>2, <1>3, Unchanged DEF Pon, TypeInv

LEMMA DaiminkanTypeInv == ASSUME TypeInv, NEW p \in Seats, Daiminkan(p) PROVE TypeInv'
<1>1. TurnOK' /\ StartInv'
  BY DEF Daiminkan, OpenKan, TypeInv, TurnOK, Phases, StartInv
<1>2. SticksOK' /\ OpenOK'
  BY CheckRiichiType, DisturbType DEF Daiminkan, MayCall, Undisturbed
<1>3. MeldsOK'
  BY PaosType DEF Daiminkan, OpenKan, MayCall, Melds, TypeInv, MeldsOK, MeldsInv
<1>4. DuesOK'
  BY DEF Daiminkan, OpenKan, TypeInv, DuesOK
<1>5. KansOK'
  BY DEF Daiminkan, OpenKan, KanLeft, TypeInv, KansOK
<1> QED BY <1>1, <1>2, <1>3, <1>4, <1>5, Unchanged DEF Daiminkan, OpenKan, TypeInv

LEMMA KakanTypeInv == ASSUME TypeInv, NEW p \in Seats, Kakan(p) PROVE TypeInv'
<1>1. TurnOK' /\ StartInv'
  BY DEF Kakan, OpenKan, TypeInv, TurnOK, Phases, StartInv
<1>3. MeldsOK'
  BY DEF Kakan, OpenKan, Melds, TypeInv, MeldsOK, MeldsInv
<1>4. DuesOK'
  BY DEF Kakan, OpenKan, TypeInv, DuesOK
<1>5. KansOK'
  BY DEF Kakan, OpenKan, KanLeft, TypeInv, KansOK
<1> QED BY <1>1, <1>3, <1>4, <1>5, Unchanged DEF Kakan, OpenKan, TypeInv, riichiVars

LEMMA AnkanTypeInv == ASSUME TypeInv, NEW p \in Seats, Ankan(p) PROVE TypeInv'
<1>1. TurnOK' /\ StartInv'
  BY DEF Ankan, TypeInv, TurnOK, Phases, StartInv
<1>2. WallOK'
  BY DEF Ankan, TypeInv, WallOK
<1>3. MeldsOK'
  BY DEF Ankan, Melds, TypeInv, MeldsOK, MeldsInv
<1>4. DuesOK'
  BY DEF Ankan, TypeInv, DuesOK
<1>5. KansOK'
  BY DEF Ankan, KanLeft, TypeInv, KansOK
<1>6. OpenOK'
  BY DEF Ankan, TypeInv, OpenOK, None
<1> QED BY <1>1, <1>2, <1>3, <1>4, <1>5, <1>6, Unchanged DEF Ankan, TypeInv, riichiVars

(* The end of a kyoku: the table stays, points are paid. *)
LEMMA EndTypeInv ==
  ASSUME TypeInv, UNCHANGED tableVars, phase' = "end", EndOK',
         scores' \in [Seats -> Int], kyotaku' \in Nat
  PROVE  TypeInv'
<1> USE DEF tableVars
<1>1. TurnOK' /\ StartInv'
  BY DEF TypeInv, TurnOK, Phases, StartInv
<1>2. SticksOK'
  BY DEF TypeInv, SticksOK
<1> QED BY <1>1, <1>2, Unchanged DEF TypeInv

LEMMA RonTypeInv ==
  ASSUME TypeInv, NEW winners \in SUBSET Seats, Ron(winners)
  PROVE  TypeInv'
<1> DEFINE first == FirstWinner(winners, actor)
           Deltas(ron) == [w \in Seats |-> IF w \in winners
                                           THEN RonDelta(w, actor, ron[w], first) ELSE Zero]
<1> HIDE DEF first
<1>1. PICK ron : /\ \A w \in winners : \E point \in HandPoints(w) : ron[w] = point.ron
                 /\ Pay(AddUp(Deltas(ron)))
  BY DEF Ron, first
<1>2. TypeOK /\ actor \in Seats
  BY TypeInvImpliesTypeOK DEF TypeOK
<1>3. ASSUME NEW w \in winners PROVE ron[w] \in Nat
  BY <1>1, <1>2, HandPointsType DEF Points
<1>4. ASSUME NEW w \in winners PROVE RonDelta(w, actor, ron[w], first) \in [Seats -> Int]
  BY <1>2, <1>3, RonDeltaType
<1>5. Deltas(ron) \in [Seats -> [Seats -> Int]]
  BY <1>4 DEF Zero
<1>6. scores' \in [Seats -> Int]
  <2> HIDE DEF Deltas
  <2> QED BY <1>1, <1>2, <1>5, AddUpType, PayType
<1>7. can_renchan' \in BOOLEAN /\ outcome' = "hora" /\ phase' = "end" /\ kyotaku' = 0
      /\ UNCHANGED tableVars
  BY DEF Ron, End
<1> QED BY <1>6, <1>7, EndTypeInv DEF EndOK

LEMMA TsumoTypeInv == ASSUME TypeInv, NEW p \in Seats, Tsumo(p) PROVE TypeInv'
<1>1. TypeOK
  BY TypeInvImpliesTypeOK
<1>2. scores' \in [Seats -> Int]
  BY <1>1, TsumoPointsType, TsumoDeltaType, PayType DEF Tsumo
<1>3. can_renchan' \in BOOLEAN /\ outcome' = "hora" /\ phase' = "end" /\ kyotaku' = 0
      /\ UNCHANGED tableVars
  BY DEF Tsumo, End
<1> QED BY <1>2, <1>3, EndTypeInv DEF EndOK

LEMMA ExhaustiveTypeInv ==
  ASSUME TypeInv, NEW tenpai \in SUBSET Seats, ExhaustiveRyukyoku(tenpai)
  PROVE  TypeInv'
<1> DEFINE nagashi == {p \in Seats : can_nagashi_mangan[p]}
           Deltas == [w \in Seats |-> IF w \in nagashi THEN NagashiDelta(w) ELSE Zero]
<1>1. TypeOK
  BY TypeInvImpliesTypeOK
<1>2. Deltas \in [Seats -> [Seats -> Int]]
  BY NagashiDeltaType DEF Zero
<1>3. Pay(TenpaiDelta(tenpai)) \/ Pay(AddUp(Deltas))
  BY DEF ExhaustiveRyukyoku
<1>4. scores' \in [Seats -> Int]
  <2> HIDE DEF Deltas
  <2> QED BY <1>1, <1>2, <1>3, AddUpType, TenpaiDeltaType, PayType
<1>5. /\ can_renchan' \in BOOLEAN /\ outcome' = "exhaustive" /\ phase' = "end"
      /\ UNCHANGED tableVars /\ kyotaku' = kyotaku
  BY DEF ExhaustiveRyukyoku, End
<1>6. kyotaku' \in Nat
  BY <1>5 DEF TypeInv, SticksOK
<1> QED BY <1>4, <1>5, <1>6, EndTypeInv DEF EndOK

LEMMA AbortiveTypeInv ==
  ASSUME TypeInv, NEW how \in AbortiveEnds, AbortiveRyukyoku(how)
  PROVE  TypeInv'
<1>1. scores' \in [Seats -> Int] /\ kyotaku' \in Nat
  BY DEF AbortiveRyukyoku, TypeInv, SticksOK
<1>2. can_renchan' \in BOOLEAN /\ outcome' = how /\ phase' = "end" /\ UNCHANGED tableVars
  BY DEF AbortiveRyukyoku, End
<1> QED BY <1>1, <1>2, EndTypeInv DEF EndOK

(* The four abortive draws, as one case of the step. *)
AbortiveStep == \E how \in AbortiveEnds : phase \notin {"start", "end"} /\ AbortiveRyukyoku(how)

LEMMA AbortiveSteps ==
  /\ \A p \in Seats : KyuushuKyuuhai(p) => AbortiveStep
  /\ FourRiichi => AbortiveStep
  /\ FourKan => AbortiveStep
<1>1. \A p \in Seats : KyuushuKyuuhai(p) => AbortiveStep
  BY DEF KyuushuKyuuhai, HasDrawn, AbortiveStep, AbortiveEnds
<1>2. FourRiichi => AbortiveStep
  BY DEF FourRiichi, AbortiveStep, AbortiveEnds
<1>3. FourKan => AbortiveStep
  BY DEF FourKan, AbortiveStep, AbortiveEnds
<1> QED BY <1>1, <1>2, <1>3

LEMMA NextTypeInv == TypeInv /\ [Next]_vars => TypeInv'
<1> SUFFICES ASSUME TypeInv, [Next]_vars PROVE TypeInv'
  OBVIOUS
<1>1. CASE UNCHANGED vars
  <2>1. StartInv'
    BY <1>1 DEF vars, turnVars, wallVars, kanVars, TypeInv, StartInv
  <2> QED BY <1>1, <2>1, Unchanged DEF vars, riichiVars, TypeInv
<1>2. CASE Haipai
  BY <1>2, HaipaiTypeInv
<1>3. CASE Draw
  BY <1>3, DrawTypeInv
<1>4. ASSUME NEW p \in Seats,
             Reach(p) \/ Chi(p) \/ Pon(p) \/ Daiminkan(p) \/ Kakan(p) \/ Ankan(p)
      PROVE  TypeInv'
  BY <1>4, ReachTypeInv, ChiTypeInv, PonTypeInv, DaiminkanTypeInv, KakanTypeInv, AnkanTypeInv
<1>5. ASSUME NEW p \in Seats, NEW k \in Kinds, Dahai(p, k) PROVE TypeInv'
  BY <1>5, DahaiTypeInv
<1>6. ASSUME NEW winners \in SUBSET Seats, Ron(winners) PROVE TypeInv'
  BY <1>6, RonTypeInv
<1>7. ASSUME NEW p \in Seats, Tsumo(p) PROVE TypeInv'
  BY <1>7, TsumoTypeInv
<1>8. ASSUME NEW tenpai \in SUBSET Seats, ExhaustiveRyukyoku(tenpai) PROVE TypeInv'
  BY <1>8, ExhaustiveTypeInv
<1>9. CASE AbortiveStep
  BY <1>9, AbortiveTypeInv DEF AbortiveStep
<1> QED BY <1>1, <1>2, <1>3, <1>4, <1>5, <1>6, <1>7, <1>8, <1>9, AbortiveSteps DEF Next

(* BoardState::step keeps every field in its range, no hand gets a fifth     *)
(* meld and no kyoku a fifth kan, whatever the agents answer.                *)
THEOREM TypeCorrect == Spec => []TypeOK
<1> QED BY InitTypeInv, NextTypeInv, TypeInvImpliesTypeOK, PTL DEF Spec

LEMMA TypeInvHolds == Spec => []TypeInv
  BY InitTypeInv, NextTypeInv, PTL DEF Spec

-----------------------------------------------------------------------------
(* The piles. *)

Count(b) == IF b THEN 1 ELSE 0

(* Every tile drawn came from the wall or the rinshan, and from the rinshan  *)
(* one for each kan whose draw has been made.                                *)
WallInv ==
  /\ yama + rinshan = tiles_left + 4
  /\ rinshan = 4 - kans + Count(deal_from_rinshan)
  /\ deal_from_rinshan => kans >= 1

(* Every kan but those still due has turned an indicator. *)
DoraInv ==
  /\ phase = "start" => dora_indicators = 5
  /\ phase # "start" =>
       dora_indicators = 4 - kans + Count(need_new_dora_at_discard) + Count(need_new_dora_at_tsumo)

(* When something can be due. *)
DuesInv ==
  /\ phase \in {"start", "turn", "riichi", "called", "discarded"} =>
       ~deal_from_rinshan /\ ~need_new_dora_at_tsumo
  /\ phase \in {"start", "called", "discarded"} => ~need_new_dora_at_discard
  /\ phase \in {"kakan", "rinshan"} => deal_from_rinshan

PileInv == WallInv /\ DoraInv /\ DuesInv

LEMMA InitPileInv == Init => PileInv
<1> SUFFICES ASSUME Init PROVE PileInv
  OBVIOUS
<1>1. WallInv
  BY Constants DEF Init, WallInv, Count
<1>2. DoraInv
  BY DEF Init, DoraInv
<1>3. DuesInv
  BY DEF Init, DuesInv
<1> QED BY <1>1, <1>2, <1>3 DEF PileInv

(* Reactions that touch neither a pile nor what is due. *)
LEMMA PilesUntouched ==
  ASSUME PileInv, UNCHANGED <<wallVars, duesVars, kans>>, phase # "start",
         phase' \in {"end", "called", "riichi"}, phase' = "called" => phase = "discarded",
         phase' = "riichi" => phase = "turn"
  PROVE  PileInv'
<1> USE DEF wallVars, duesVars
<1>1. WallInv'
  BY DEF PileInv, WallInv, Count
<1>2. DoraInv'
  BY DEF PileInv, DoraInv, Count
<1>3. DuesInv'
  BY DEF PileInv, DuesInv
<1> QED BY <1>1, <1>2, <1>3 DEF PileInv

LEMMA DrawPileInv == ASSUME TypeInv, PileInv, Draw PROVE PileInv'
<1> USE DEF PileInv
<1>1. /\ tiles_left \in Int /\ yama \in Int /\ rinshan \in Int /\ kans \in Int
      /\ dora_indicators \in Int
  BY Constants DEF TypeInv, WallOK, KansOK
<1>2. WallInv'
  <2>1. kans' = kans /\ tiles_left' = tiles_left - 1 /\ deal_from_rinshan' = FALSE
    BY DEF Draw, kanVars
  <2>2. CASE deal_from_rinshan
    BY <1>1, <2>1, <2>2 DEF Draw, WallInv, Count
  <2>3. CASE ~deal_from_rinshan
    BY <1>1, <2>1, <2>3 DEF Draw, WallInv, Count
  <2> QED BY <2>2, <2>3
<1>3. DoraInv'
  <2>1. /\ kans' = kans /\ phase # "start" /\ phase' = "turn"
        /\ need_new_dora_at_discard' = need_new_dora_at_discard
        /\ need_new_dora_at_tsumo' = FALSE
        /\ dora_indicators' = dora_indicators - Count(need_new_dora_at_tsumo)
    BY DEF Draw, kanVars, Count
  <2>2. Count(need_new_dora_at_discard) \in Int /\ Count(need_new_dora_at_tsumo) \in Int
    BY DEF Count
  <2>3. /\ Count(need_new_dora_at_discard)' = Count(need_new_dora_at_discard)
        /\ Count(need_new_dora_at_tsumo)' = 0
    BY <2>1 DEF Count
  <2> QED BY <1>1, <2>1, <2>2, <2>3 DEF DoraInv
<1>4. DuesInv'
  BY DEF Draw, DuesInv
<1> QED BY <1>2, <1>3, <1>4

LEMMA DahaiPileInv ==
  ASSUME TypeInv, PileInv, NEW p \in Seats, NEW k \in Kinds, Dahai(p, k)
  PROVE  PileInv'
<1> USE DEF PileInv
<1>1. /\ kans' = kans /\ phase \in {"turn", "riichi", "called"} /\ phase' \in {"discarded", "end"}
      /\ UNCHANGED <<tiles_left, yama, rinshan, deal_from_rinshan, need_new_dora_at_tsumo>>
      /\ need_new_dora_at_discard' = FALSE
      /\ dora_indicators' = dora_indicators - Count(need_new_dora_at_discard)
  BY DEF Dahai, End, Count
<1>2. dora_indicators \in Int /\ kans \in Int
  BY DEF TypeInv, WallOK, KansOK
<1>3. Count(need_new_dora_at_discard) \in Int /\ Count(need_new_dora_at_tsumo) \in Int
  BY DEF Count
<1>4. WallInv'
  BY <1>1 DEF WallInv, Count
<1>5. DoraInv'
  <2>1. Count(need_new_dora_at_tsumo)' = Count(need_new_dora_at_tsumo)
        /\ Count(need_new_dora_at_discard)' = 0
    BY <1>1 DEF Count
  <2> QED BY <1>1, <1>2, <1>3, <2>1 DEF DoraInv
<1>6. DuesInv'
  BY <1>1 DEF DuesInv
<1> QED BY <1>4, <1>5, <1>6

LEMMA OpenKanPileInv ==
  ASSUME TypeInv, PileInv, NEW p \in Seats, OpenKan(p),
         phase \in {"turn", "discarded"}, phase' \in {"kakan", "rinshan"}
  PROVE  PileInv'
<1> USE DEF PileInv
<1>1. /\ kans' = kans + 1 /\ kans \in Nat /\ ~deal_from_rinshan /\ deal_from_rinshan' = TRUE
      /\ UNCHANGED <<tiles_left, yama, rinshan, dora_indicators>>
      /\ ~need_new_dora_at_tsumo /\ need_new_dora_at_tsumo' = need_new_dora_at_discard
      /\ need_new_dora_at_discard' = TRUE
  BY DEF OpenKan, wallVars, DuesInv, TypeInv, KansOK, DuesOK
<1>2. dora_indicators \in Int /\ Count(need_new_dora_at_discard) \in Int
  BY DEF TypeInv, WallOK, Count
<1>3. WallInv'
  BY <1>1 DEF WallInv, Count
<1>4. DoraInv'
  <2>1. /\ Count(need_new_dora_at_tsumo) = 0
        /\ Count(need_new_dora_at_tsumo)' = Count(need_new_dora_at_discard)
        /\ Count(need_new_dora_at_discard)' = 1
    BY <1>1 DEF Count
  <2> QED BY <1>1, <1>2, <2>1 DEF DoraInv
<1>5. DuesInv'
  BY <1>1 DEF DuesInv
<1> QED BY <1>3, <1>4, <1>5

LEMMA AnkanPileInv == ASSUME TypeInv, PileInv, NEW p \in Seats, Ankan(p) PROVE PileInv'
<1> USE DEF PileInv
<1>1. /\ phase = "turn" /\ phase' = "rinshan"
      /\ kans' = kans + 1 /\ kans \in Nat /\ ~deal_from_rinshan /\ deal_from_rinshan' = TRUE
      /\ UNCHANGED <<tiles_left, yama, rinshan>>
      /\ ~need_new_dora_at_tsumo /\ need_new_dora_at_tsumo' = need_new_dora_at_tsumo
      /\ need_new_dora_at_discard' = FALSE
      /\ dora_indicators' = dora_indicators - (1 + Count(need_new_dora_at_discard))
  BY DEF Ankan, HasDrawn, DuesInv, TypeInv, KansOK, WallOK, Count
<1>2. dora_indicators \in Int /\ Count(need_new_dora_at_discard) \in Int
  BY DEF TypeInv, WallOK, Count
<1>3. WallInv'
  BY <1>1 DEF WallInv, Count
<1>4. DoraInv'
  <2>1. /\ Count(need_new_dora_at_tsumo) = 0
        /\ Count(need_new_dora_at_tsumo)' = 0
        /\ Count(need_new_dora_at_discard)' = 0
    BY <1>1 DEF Count
  <2> QED BY <1>1, <1>2, <2>1 DEF DoraInv
<1>5. DuesInv'
  BY <1>1 DEF DuesInv
<1> QED BY <1>3, <1>4, <1>5

LEMMA NextPileInv == TypeInv /\ PileInv /\ [Next]_vars => PileInv'
<1> SUFFICES ASSUME TypeInv, PileInv, [Next]_vars PROVE PileInv'
  OBVIOUS
<1>1. CASE UNCHANGED vars
  <2>1. UNCHANGED <<phase, tiles_left, yama, rinshan, dora_indicators, kans, deal_from_rinshan,
                    need_new_dora_at_discard, need_new_dora_at_tsumo>>
    BY <1>1 DEF vars, turnVars, wallVars, kanVars, duesVars
  <2> QED BY <2>1 DEF PileInv, WallInv, DoraInv, DuesInv, Count
<1>2. CASE Haipai
  <2>1. /\ phase = "start" /\ phase' = "turn" /\ tiles_left' = tiles_left - 1 /\ yama' = yama - 1
        /\ dora_indicators' = dora_indicators - 1
        /\ UNCHANGED <<rinshan, kans, deal_from_rinshan, need_new_dora_at_discard,
                       need_new_dora_at_tsumo>>
    BY <1>2 DEF Haipai, duesVars, kanVars
  <2>2. tiles_left \in Int /\ yama \in Int /\ rinshan \in Int /\ kans = 0
    BY <2>1, Constants DEF TypeInv, WallOK, StartInv
  <2>3. WallInv'
    BY <2>1, <2>2 DEF PileInv, WallInv, Count
  <2>4. DoraInv'
    BY <2>1, <2>2 DEF PileInv, DoraInv, DuesInv, Count
  <2>5. DuesInv'
    BY <2>1 DEF PileInv, DuesInv
  <2> QED BY <2>3, <2>4, <2>5 DEF PileInv
<1>3. CASE Draw
  BY <1>3, DrawPileInv
<1>4. ASSUME NEW p \in Seats, Reach(p) \/ Chi(p) \/ Pon(p) PROVE PileInv'
  BY <1>4, PilesUntouched DEF Reach, Chi, Pon, HasDrawn, MayCall, kanVars
<1>5. ASSUME NEW p \in Seats, Daiminkan(p) \/ Kakan(p) PROVE PileInv'
  BY <1>5, OpenKanPileInv DEF Daiminkan, Kakan, HasDrawn, MayCall
<1>6. ASSUME NEW p \in Seats, Ankan(p) PROVE PileInv'
  BY <1>6, AnkanPileInv
<1>7. ASSUME NEW p \in Seats, NEW k \in Kinds, Dahai(p, k) PROVE PileInv'
  BY <1>7, DahaiPileInv
<1>8. ASSUME phase # "start", phase' = "end", UNCHANGED tableVars PROVE PileInv'
  BY <1>8, PilesUntouched DEF tableVars, kanVars
<1>9. ASSUME NEW winners \in SUBSET Seats, Ron(winners) PROVE PileInv'
  BY <1>8, <1>9 DEF Ron, End
<1>10. ASSUME NEW p \in Seats, Tsumo(p) PROVE PileInv'
  BY <1>8, <1>10 DEF Tsumo, HasDrawn, End
<1>11. ASSUME NEW tenpai \in SUBSET Seats, ExhaustiveRyukyoku(tenpai) PROVE PileInv'
  BY <1>8, <1>11 DEF ExhaustiveRyukyoku, End
<1>12. CASE AbortiveStep
  BY <1>8, <1>12 DEF AbortiveStep, AbortiveRyukyoku, End
<1> QED BY <1>1, <1>2, <1>3, <1>4, <1>5, <1>6, <1>7, <1>9, <1>10, <1>11, <1>12, AbortiveSteps
        DEF Next

LEMMA PileInvHolds == Spec => [](TypeInv /\ PileInv)
  BY InitPileInv, NextPileInv, TypeInvHolds, PTL DEF Spec

(* What is due accounts for every indicator that is not turned. *)
LEMMA PilesFollowKans == TypeInv /\ PileInv => DoraFollowsKan
<1> SUFFICES ASSUME TypeInv, PileInv PROVE DoraFollowsKan
  OBVIOUS
<1>1. dora_indicators \in Int /\ kans \in Nat
  BY DEF TypeInv, WallOK, KansOK
<1>2. Count(need_new_dora_at_discard) \in {0, 1}
  BY DEF Count
<1>3. ASSUME phase \in {"called", "discarded"} PROVE 5 - dora_indicators = 1 + kans
  <2>1. Count(need_new_dora_at_discard) = 0 /\ Count(need_new_dora_at_tsumo) = 0
    BY <1>3 DEF PileInv, DuesInv, Count
  <2> QED BY <1>1, <1>3, <2>1 DEF PileInv, DoraInv
<1>4. ASSUME phase \in {"turn", "riichi"} PROVE 5 - dora_indicators \in kans .. 1 + kans
  <2>1. Count(need_new_dora_at_tsumo) = 0
    BY <1>4 DEF PileInv, DuesInv, Count
  <2> QED BY <1>1, <1>2, <1>4, <2>1 DEF PileInv, DoraInv
<1> QED BY <1>3, <1>4 DEF DoraFollowsKan

(* Every kan turns its indicator by the next discard, for any sequence of    *)
(* open, added and closed kans (step, its arms Ankan, Daiminkan and Kakan).  *)
THEOREM IndicatorsFollowKans == Spec => []DoraFollowsKan
  BY PilesFollowKans, PileInvHolds, PTL

-----------------------------------------------------------------------------
(* The error paths. *)

(* As long as no wind has been recorded and four winds are possible, nobody  *)
(* has discarded or called.                                                  *)
WindInv == phase # "end" /\ can_four_wind /\ four_wind_tile = NoTile =>
             \A q \in Seats : can_w_riichi[q]

LEMMA InitWindInv == Init => WindInv
  BY DEF Init, WindInv, All

LEMMA DahaiWindInv ==
  ASSUME TypeInv, WindInv, NEW p \in Seats, NEW k \in Kinds, Dahai(p, k)
  PROVE  WindInv'
<1>1. SUFFICES ASSUME can_four_wind', four_wind_tile' = NoTile PROVE FALSE
  BY DEF WindInv
<1>2. can_four_wind' = FourWind(p, k).can /\ four_wind_tile' = FourWind(p, k).tile
  BY DEF Dahai
<1>3. phase # "end" /\ k # NoTile
  BY Constants DEF Dahai
<1>4. can_four_wind /\ k \in Winds
  BY <1>1, <1>2 DEF FourWind
<1>5. CASE can_w_riichi[Shimocha(p)]
  BY <1>1, <1>2, <1>3, <1>4, <1>5 DEF FourWind
<1>6. CASE ~can_w_riichi[Shimocha(p)]
  BY <1>1, <1>2, <1>3, <1>4, <1>6 DEF FourWind
<1> QED BY <1>5, <1>6

LEMMA NextWindInv == TypeInv /\ WindInv /\ [Next]_vars => WindInv'
<1> SUFFICES ASSUME TypeInv, WindInv, [Next]_vars PROVE WindInv'
  OBVIOUS
<1> USE DEF WindInv
<1>1. ASSUME UNCHANGED openVars, phase' # "end" => phase # "end" PROVE WindInv'
  BY <1>1 DEF openVars
<1>2. CASE UNCHANGED vars
  BY <1>1, <1>2 DEF vars, turnVars
<1>3. CASE Haipai \/ Draw
  BY <1>1, <1>3 DEF Haipai, Draw
<1>4. ASSUME NEW p \in Seats, Reach(p) \/ Kakan(p) PROVE WindInv'
  BY <1>1, <1>4 DEF Reach, Kakan, HasDrawn
<1>5. ASSUME NEW p \in Seats, Chi(p) \/ Pon(p) \/ Daiminkan(p) \/ Ankan(p) PROVE WindInv'
  BY <1>5 DEF Chi, Pon, Daiminkan, Ankan, Disturb
<1>6. ASSUME NEW p \in Seats, NEW k \in Kinds, Dahai(p, k) PROVE WindInv'
  BY <1>6, DahaiWindInv
<1>7. ASSUME phase' = "end" PROVE WindInv'
  BY <1>7
<1>8. ASSUME NEW winners \in SUBSET Seats, Ron(winners) PROVE WindInv'
  BY <1>7, <1>8 DEF Ron, End
<1>9. ASSUME NEW p \in Seats, Tsumo(p) PROVE WindInv'
  BY <1>7, <1>9 DEF Tsumo, End
<1>10. ASSUME NEW tenpai \in SUBSET Seats, ExhaustiveRyukyoku(tenpai) PROVE WindInv'
  BY <1>7, <1>10 DEF ExhaustiveRyukyoku, End
<1>11. CASE AbortiveStep
  BY <1>7, <1>11 DEF AbortiveStep, AbortiveRyukyoku, End
<1> QED BY <1>2, <1>3, <1>4, <1>5, <1>6, <1>8, <1>9, <1>10, <1>11, AbortiveSteps DEF Next

(* step never takes a `bail` or a failing `context`: the piles are not       *)
(* popped when they are empty, and four winds have a wind to compare with.   *)
THEOREM ErrorsUnreachable == Spec => []NoErrorPath
<1>1. TypeInv /\ PileInv /\ WindInv => NoErrorPath
  <2> SUFFICES ASSUME TypeInv, PileInv, WindInv PROVE NoErrorPath
    OBVIOUS
  <2>1. /\ tiles_left \in Nat /\ yama \in Int /\ rinshan \in Int /\ dora_indicators \in Int
        /\ kans \in 0..4
    BY Constants DEF TypeInv, WallOK, KansOK
  <2>2. /\ Count(deal_from_rinshan) \in {0, 1}
        /\ Count(need_new_dora_at_discard) \in {0, 1} /\ Count(need_new_dora_at_tsumo) \in {0, 1}
    BY DEF Count
  <2>3. dora_indicators >= 0
    BY <2>1, <2>2 DEF PileInv, DoraInv
  <2>4. rinshan >= 0 /\ rinshan <= 4
    BY <2>1, <2>2 DEF PileInv, WallInv, Count
  <2>5. yama >= 0
    BY <2>1, <2>4 DEF PileInv, WallInv
  <2>6. Shimocha(actor) \in Seats
    BY ShimochaIsSeat DEF TypeInv, TurnOK
  <2> QED BY <2>3, <2>4, <2>5, <2>6 DEF WindInv, NoErrorPath
<1> QED BY <1>1, InitWindInv, NextWindInv, PileInvHolds, PTL DEF Spec

-----------------------------------------------------------------------------
(* Four kans, and the end of the kyoku. *)

SplitInv == phase = "discarded" /\ FourKansSplit => check_four_kan

LEMMA NextSplitInv == SplitInv /\ [Next]_vars => SplitInv'
<1> SUFFICES ASSUME SplitInv, [Next]_vars, phase' = "discarded" PROVE SplitInv'
  BY DEF SplitInv
<1>1. CASE UNCHANGED vars
  BY <1>1 DEF SplitInv, vars, turnVars, kanVars, meldVars, FourKansSplit, KansCount
<1>2. ASSUME NEW p \in Seats, NEW k \in Kinds, Dahai(p, k) PROVE SplitInv'
  BY <1>2 DEF SplitInv, Dahai, End, meldVars, FourKansSplit, KansCount
<1>3. ~Haipai /\ ~Draw /\ ~AbortiveStep
  BY DEF Haipai, Draw, AbortiveStep, AbortiveRyukyoku, End
<1>4. \A p \in Seats : ~Reach(p) /\ ~Chi(p) /\ ~Pon(p) /\ ~Daiminkan(p) /\ ~Kakan(p) /\ ~Ankan(p)
  BY DEF Reach, Chi, Pon, Daiminkan, Kakan, Ankan
<1>5. /\ \A winners \in SUBSET Seats : ~Ron(winners)
      /\ \A p \in Seats : ~Tsumo(p)
      /\ \A tenpai \in SUBSET Seats : ~ExhaustiveRyukyoku(tenpai)
  BY DEF Ron, Tsumo, ExhaustiveRyukyoku, End
<1> QED BY <1>1, <1>2, <1>3, <1>4, <1>5, AbortiveSteps DEF Next

LEMMA MeldsType ==
  ASSUME TypeInv
  PROVE  /\ \A p \in Seats : Melds(p) \in 0..4
         /\ Calls \in 0..16
<1>1. ASSUME NEW p \in Seats PROVE Melds(p) \in 0..4
  <2>1. chis[p] \in Nat /\ pons[p] \in Nat /\ minkans[p] \in Nat /\ ankans[p] \in Nat
    BY DEF TypeInv, MeldsOK
  <2>2. Melds(p) <= 4
    BY DEF TypeInv, MeldsOK, MeldsInv
  <2> QED BY <2>1, <2>2 DEF Melds
<1>2. Melds(0) \in 0..4 /\ Melds(1) \in 0..4 /\ Melds(2) \in 0..4 /\ Melds(3) \in 0..4
  BY <1>1, Constants
<1> QED BY <1>1, <1>2 DEF Calls

(* A call is a meld more, of one player. *)
LEMMA OneCallMore ==
  ASSUME TypeInv, NEW p \in Seats, Melds(p)' = Melds(p) + 1,
         \A q \in Seats \ {p} : Melds(q)' = Melds(q)
  PROVE  Calls' = Calls + 1
<1>1. Melds(0) \in Int /\ Melds(1) \in Int /\ Melds(2) \in Int /\ Melds(3) \in Int
  BY MeldsType, Constants
<1>2. CASE p = 0
  BY <1>1, <1>2, Constants DEF Calls
<1>3. CASE p = 1
  BY <1>1, <1>3, Constants DEF Calls
<1>4. CASE p = 2
  BY <1>1, <1>4, Constants DEF Calls
<1>5. CASE p = 3
  BY <1>1, <1>5, Constants DEF Calls
<1> QED BY <1>2, <1>3, <1>4, <1>5, Constants

LEMMA MeldsOfCall ==
  ASSUME TypeInv, NEW p \in Seats, Chi(p) \/ Pon(p) \/ Daiminkan(p) \/ Ankan(p)
  PROVE  Calls' = Calls + 1
<1>1. \A q \in Seats : chis[q] \in Int /\ pons[q] \in Int /\ minkans[q] \in Int /\ ankans[q] \in Int
  BY DEF TypeInv, MeldsOK
<1>2. Melds(p)' = Melds(p) + 1 /\ \A q \in Seats \ {p} : Melds(q)' = Melds(q)
  <2>1. CASE Chi(p)
    BY <1>1, <2>1 DEF Chi, Melds, TypeInv, MeldsOK
  <2>2. CASE Pon(p)
    BY <1>1, <2>2 DEF Pon, Melds, TypeInv, MeldsOK
  <2>3. CASE Daiminkan(p)
    BY <1>1, <2>3 DEF Daiminkan, OpenKan, Melds, TypeInv, MeldsOK
  <2>4. CASE Ankan(p)
    BY <1>1, <2>4 DEF Ankan, Melds, TypeInv, MeldsOK
  <2> QED BY <2>1, <2>2, <2>3, <2>4
<1> QED BY <1>2, OneCallMore

LEMMA MeldsOfKakan ==
  ASSUME TypeInv, NEW p \in Seats, Kakan(p)
  PROVE  Calls' = Calls
<1>1. \A q \in Seats : chis[q] \in Int /\ pons[q] \in Int /\ minkans[q] \in Int /\ ankans[q] \in Int
  BY DEF TypeInv, MeldsOK
<1>2. \A q \in Seats : Melds(q)' = Melds(q)
  BY <1>1 DEF Kakan, OpenKan, Melds, TypeInv, MeldsOK
<1> QED BY <1>2, Constants DEF Calls

LEMMA MeldsStay == UNCHANGED meldVars => Calls' = Calls
  BY DEF meldVars, Calls, Melds

(* The steps that are neither a call nor a kan leave the melds alone, and    *)
(* only Draw and Haipai take a tile from the wall.                           *)
LEMMA OtherSteps ==
  /\ Haipai \/ Draw => UNCHANGED meldVars
  /\ \A p \in Seats : Reach(p) => UNCHANGED <<meldVars, wallVars>>
  /\ \A p \in Seats : Chi(p) \/ Pon(p) \/ Daiminkan(p) \/ Kakan(p) =>
                        UNCHANGED wallVars
  /\ \A p \in Seats : Ankan(p) => UNCHANGED <<tiles_left, yama>>
  /\ \A p \in Seats, k \in Kinds : Dahai(p, k) => UNCHANGED <<meldVars, tiles_left, yama>>
  BY DEF Haipai, Draw, Reach, Chi, Pon, Daiminkan, Kakan, OpenKan, Ankan, Dahai

(* The steps that end a kyoku, as one case. *)
EndStep == phase # "end" /\ phase # "start" /\ phase' = "end" /\ UNCHANGED tableVars

LEMMA EndSteps ==
  /\ \A winners \in SUBSET Seats : Ron(winners) => EndStep
  /\ \A p \in Seats : Tsumo(p) => EndStep
  /\ \A tenpai \in SUBSET Seats : ExhaustiveRyukyoku(tenpai) => EndStep
  /\ AbortiveStep => EndStep
<1>1. \A winners \in SUBSET Seats : Ron(winners) => EndStep
  BY DEF Ron, End, EndStep
<1>2. \A p \in Seats : Tsumo(p) => EndStep
  BY DEF Tsumo, HasDrawn, End, EndStep
<1>3. \A tenpai \in SUBSET Seats : ExhaustiveRyukyoku(tenpai) => EndStep
  BY DEF ExhaustiveRyukyoku, End, EndStep
<1>4. AbortiveStep => EndStep
  BY DEF AbortiveStep, AbortiveRyukyoku, End, EndStep
<1> QED BY <1>1, <1>2, <1>3, <1>4

LEMMA StopStep ==
  ASSUME TypeInv, PileInv, SplitInv, Next, FourKansSplit
  PROVE  yama' = yama /\ Calls' = Calls
<1> kans = 4
  BY DEF FourKansSplit
<1>1. ~Haipai
  BY DEF Haipai, TypeInv, StartInv
<1>2. CASE Draw
  <2>1. phase \in {"kakan", "rinshan"}
    BY <1>2 DEF Draw, SplitInv, Undisturbed
  <2>2. deal_from_rinshan
    BY <2>1 DEF PileInv, DuesInv
  <2> QED BY <1>2, <2>2, OtherSteps, MeldsStay DEF Draw
<1>3. \A p \in Seats : ~Chi(p) /\ ~Pon(p) /\ ~Daiminkan(p) /\ ~Kakan(p) /\ ~Ankan(p)
  BY DEF Chi, Pon, Daiminkan, Kakan, Ankan, MayCall, KanLeft, SplitInv, Undisturbed
<1>4. ASSUME NEW p \in Seats, Reach(p) PROVE yama' = yama /\ Calls' = Calls
  BY <1>4, OtherSteps, MeldsStay DEF wallVars
<1>5. ASSUME NEW p \in Seats, NEW k \in Kinds, Dahai(p, k) PROVE yama' = yama /\ Calls' = Calls
  BY <1>5, OtherSteps, MeldsStay
<1>6. CASE EndStep
  BY <1>6, MeldsStay DEF EndStep, tableVars, wallVars
<1> QED BY <1>1, <1>2, <1>3, <1>4, <1>5, <1>6, EndSteps, AbortiveSteps DEF Next

(* After four kans of several players step draws no tile from the wall and   *)
(* lets nobody call: one discard is left.                                    *)
THEOREM FourKansEndThePlay == Spec => FourKansStop
<1>1. Init => SplitInv
  BY DEF Init, SplitInv
<1>2. TypeInv /\ PileInv /\ SplitInv /\ [Next]_vars
        => [FourKansSplit => yama' = yama /\ Calls' = Calls]_vars
  BY StopStep
<1> QED BY <1>1, <1>2, NextSplitInv, PileInvHolds, PTL DEF Spec, FourKansStop

LEMMA MeasureType ==
  ASSUME TypeInv
  PROVE  /\ Measure \in Nat
         /\ phase # "end" => Measure > 0
         /\ tiles_left \in Nat /\ Calls \in 0..16
<1>1. tiles_left \in Nat /\ Calls \in 0..16
  BY MeldsType, Constants DEF TypeInv, WallOK
<1>2. phase # "end" => Rank \in 3..6
  BY DEF Rank
<1> QED BY <1>1, <1>2 DEF Measure

LEMMA ProgressStep ==
  ASSUME TypeInv, TypeInv', Next
  PROVE  0 <= Measure' /\ Measure' < Measure
<1>1. /\ Measure \in Nat /\ Measure' \in Nat /\ tiles_left \in Nat /\ Calls \in 0..16
      /\ tiles_left' \in Nat /\ Calls' \in 0..16 /\ (phase # "end" => Measure > 0)
  <2>1. Measure \in Nat /\ tiles_left \in Nat /\ Calls \in 0..16 /\ (phase # "end" => Measure > 0)
    BY MeasureType
  <2>2. Rank' \in 0..6
    BY DEF Rank
  <2>3. tiles_left' \in Nat /\ \A p \in Seats : Melds(p)' \in 0..4
    BY Constants DEF TypeInv, WallOK, MeldsOK, MeldsInv, Melds
  <2>4. Melds(0)' \in 0..4 /\ Melds(1)' \in 0..4 /\ Melds(2)' \in 0..4 /\ Melds(3)' \in 0..4
    BY <2>3, Constants
  <2>5. Calls' \in 0..16
    BY <2>4 DEF Calls
  <2>6. Measure' \in Nat
    <3> DEFINE t == tiles_left'  c == Calls'  r == Rank'
    <3>2. t \in Nat /\ c \in 0..16 /\ r \in 0..6
      BY <2>2, <2>3, <2>5
    <3> HIDE DEF t, c, r
    <3>3. 10 * t + 5 * (16 - c) + r \in Nat
      BY <3>2
    <3>1. 10 * tiles_left' + 5 * (16 - Calls') + Rank' \in Nat
      BY <3>3 DEF t, c, r
    <3> QED BY <3>1 DEF Measure
  <2> QED BY <2>1, <2>3, <2>5, <2>6
<1>2. ASSUME phase # "end", phase' = "end" PROVE Measure' < Measure
  <2>1. Measure' = 0
    BY <1>2 DEF Measure
  <2> QED BY <1>1, <1>2, <2>1
<1>3. ASSUME phase # "end", phase' # "end", Rank \in Nat, Rank' \in Nat,
             10 * tiles_left' - 5 * Calls' + Rank' < 10 * tiles_left - 5 * Calls + Rank
      PROVE  Measure' < Measure
  <2>1. /\ Measure = 10 * tiles_left + 5 * (16 - Calls) + Rank
        /\ Measure' = 10 * tiles_left' + 5 * (16 - Calls') + Rank'
    BY <1>3 DEF Measure
  <2> DEFINE t == tiles_left  c == Calls  r == Rank
             t1 == tiles_left'  c1 == Calls'  r1 == Rank'
  <2>2. t \in Nat /\ c \in Int /\ t1 \in Nat /\ c1 \in Int
    BY <1>1
  <2>5. r \in Nat /\ r1 \in Nat
    BY <1>3
  <2>6. 10 * t1 - 5 * c1 + r1 < 10 * t - 5 * c + r
    BY <1>3
  <2> HIDE DEF t, c, r, t1, c1, r1
  <2>3. 10 * t1 + 5 * (16 - c1) + r1 < 10 * t + 5 * (16 - c) + r
    BY <2>2, <2>5, <2>6
  <2>4. 10 * tiles_left' + 5 * (16 - Calls') + Rank' < 10 * tiles_left + 5 * (16 - Calls) + Rank
    BY <2>3 DEF t, c, r, t1, c1, r1
  <2> QED BY <2>1, <2>4
<1>4. CASE Haipai
  BY <1>1, <1>3, <1>4, OtherSteps, MeldsStay DEF Haipai, Rank
<1>5. CASE Draw
  <2>1. tiles_left' = tiles_left - 1 /\ Calls' = Calls /\ Rank \in {3, 4} /\ Rank' = 6
        /\ phase # "end" /\ phase' # "end"
    BY <1>5, OtherSteps, MeldsStay DEF Draw, Rank
  <2> QED BY <1>1, <1>3, <2>1
<1>6. ASSUME NEW p \in Seats, Reach(p) PROVE Measure' < Measure
  <2>1. tiles_left' = tiles_left /\ Calls' = Calls /\ Rank = 6 /\ Rank' = 5
        /\ phase # "end" /\ phase' # "end"
    BY <1>6, OtherSteps, MeldsStay DEF Reach, HasDrawn, Rank, wallVars
  <2> QED BY <1>1, <1>3, <2>1
<1>7. ASSUME NEW p \in Seats, Chi(p) \/ Pon(p) PROVE Measure' < Measure
  <2>1. tiles_left' = tiles_left /\ Calls' = Calls + 1 /\ Rank = 4 /\ Rank' = 5
        /\ phase # "end" /\ phase' # "end"
    BY <1>7, OtherSteps, MeldsOfCall DEF Chi, Pon, MayCall, Rank, wallVars
  <2> QED BY <1>1, <1>3, <2>1
<1>8. ASSUME NEW p \in Seats, Daiminkan(p) \/ Ankan(p) PROVE Measure' < Measure
  <2>1. tiles_left' = tiles_left /\ Calls' = Calls + 1 /\ Rank \in {4, 6} /\ Rank' = 3
        /\ phase # "end" /\ phase' # "end"
    BY <1>8, OtherSteps, MeldsOfCall DEF Daiminkan, Ankan, MayCall, HasDrawn, Rank, wallVars
  <2> QED BY <1>1, <1>3, <2>1
<1>9. ASSUME NEW p \in Seats, Kakan(p) PROVE Measure' < Measure
  <2>1. tiles_left' = tiles_left /\ Calls' = Calls /\ Rank = 6 /\ Rank' = 3
        /\ phase # "end" /\ phase' # "end"
    BY <1>9, OtherSteps, MeldsOfKakan DEF Kakan, HasDrawn, Rank, wallVars
  <2> QED BY <1>1, <1>3, <2>1
<1>10. ASSUME NEW p \in Seats, NEW k \in Kinds, Dahai(p, k) PROVE Measure' < Measure
  <2>1. tiles_left' = tiles_left /\ Calls' = Calls /\ Rank \in {5, 6} /\ phase # "end"
    BY <1>10, OtherSteps, MeldsStay DEF Dahai, Rank
  <2>2. CASE phase' = "end"
    BY <1>2, <2>1, <2>2
  <2>3. CASE phase' = "discarded"
    <3>1. Rank' = 4
      BY <2>3 DEF Rank
    <3> QED BY <1>1, <1>3, <2>1, <2>3, <3>1
  <2> QED BY <1>10, <2>2, <2>3 DEF Dahai, End
<1>11. CASE EndStep
  BY <1>1, <1>2, <1>11 DEF EndStep
<1>12. Measure' < Measure
  BY <1>4, <1>5, <1>6, <1>7, <1>8, <1>9, <1>10, <1>11, EndSteps, AbortiveSteps DEF Next
<1> QED BY <1>1, <1>12

(* Every kyoku ends: each pass of step takes a tile, adds a meld or brings   *)
(* the turn nearer to its discard, so poll cannot loop for ever.             *)
THEOREM EveryKyokuEnds == Spec => EveryStepProgresses
<1>1. TypeInv /\ TypeInv' /\ [Next]_vars => [0 <= Measure' /\ Measure' < Measure]_vars
  BY ProgressStep
<1> QED BY <1>1, TypeInvHolds, PTL DEF Spec, EveryStepProgresses


-----------------------------------------------------------------------------
(* Riichi. *)

(* A riichi that waits for the reactions to its discard is of the player     *)
(* whose turn it is, and was declared with draws left.                       *)
PendingInv ==
  riichi_to_be_accepted # Nobody =>
    /\ phase \in {"riichi", "discarded", "end"}
    /\ riichi_to_be_accepted = actor
    /\ tiles_left >= 4

(* The part of RiichiSettled about one player. *)
SettledFor(p) ==
  /\ (riichi_declared[p] /\ ~riichi_accepted[p]) <=> riichi_to_be_accepted = p
  /\ riichi_declared[p] => IsMenzen(p)
  /\ phase # "end" => scores[p] = Scores0[p] - (IF riichi_accepted[p] THEN Stick ELSE 0)

Accepted == {p \in Seats : riichi_accepted[p]}

SettledInv ==
  /\ accepted_riichis = Cardinality(Accepted)
  /\ \A p \in Seats : SettledFor(p)
  /\ phase # "end" => kyotaku = Kyotaku0 + accepted_riichis
  /\ PendingInv
  /\ phase = "end" /\ riichi_to_be_accepted # Nobody
       => outcome \in {"hora", "four_kan", "four_wind"}

LEMMA SettledImplies == SettledInv => RiichiSettled
  BY DEF SettledInv, SettledFor, Accepted, RiichiSettled, PendingInv

LEMMA InitSettledInv == Init => SettledInv
<1> SUFFICES ASSUME Init PROVE SettledInv
  OBVIOUS
<1>1. Accepted = {}
  BY DEF Init, Accepted, None
<1>2. accepted_riichis = Cardinality(Accepted)
  BY <1>1, FS_EmptySet DEF Init
<1>3. \A p \in Seats : SettledFor(p)
  BY Constants DEF Init, SettledFor, None, Zero, IsMenzen
<1> QED BY <1>2, <1>3, Constants DEF Init, SettledInv, PendingInv

(* Seats are finitely many. *)
LEMMA SeatsFinite == IsFiniteSet(Seats) /\ Cardinality(Seats) = 4
<1>1. IsFiniteSet({0}) /\ Cardinality({0}) = 1
  BY FS_Singleton
<1>2. IsFiniteSet({0} \cup {1}) /\ Cardinality({0} \cup {1}) = 2
  BY <1>1, FS_AddElement
<1>3. IsFiniteSet({0, 1} \cup {2}) /\ Cardinality({0, 1} \cup {2}) = 3
  <2>1. {0} \cup {1} = {0, 1} /\ 2 \notin {0, 1}
    OBVIOUS
  <2> QED BY <1>2, <2>1, FS_AddElement
<1>4. IsFiniteSet({0, 1, 2} \cup {3}) /\ Cardinality({0, 1, 2} \cup {3}) = 4
  <2>1. {0, 1} \cup {2} = {0, 1, 2} /\ 3 \notin {0, 1, 2}
    OBVIOUS
  <2> QED BY <1>3, <2>1, FS_AddElement
<1>5. {0, 1, 2} \cup {3} = Seats
  BY Constants
<1> QED BY <1>4, <1>5

LEMMA AcceptedFinite == Accepted \subseteq Seats /\ IsFiniteSet(Accepted)
  BY SeatsFinite, FS_Subset DEF Accepted

(* check_riichi_accepted takes the stick from its owner and counts it. *)
LEMMA AcceptSettledInv ==
  ASSUME TypeInv, SettledInv, CheckRiichiAccepted, phase # "end"
  PROVE  /\ accepted_riichis' = Cardinality(Accepted')
         /\ riichi_to_be_accepted' = Nobody
         /\ kyotaku' = Kyotaku0 + accepted_riichis'
         /\ \A p \in Seats :
              /\ riichi_accepted'[p] = (riichi_accepted[p] \/ riichi_to_be_accepted = p)
              /\ scores'[p] = Scores0[p] - (IF riichi_accepted'[p] THEN Stick ELSE 0)
<1>1. CASE riichi_to_be_accepted = Nobody /\ UNCHANGED stickVars
  BY <1>1, Constants DEF stickVars, SettledInv, SettledFor, Accepted, TypeInv, SticksOK
<1>2. ASSUME NEW q \in Seats,
             riichi_to_be_accepted = q,
             riichi_accepted' = [riichi_accepted EXCEPT ![q] = TRUE],
             scores' = [scores EXCEPT ![q] = @ - Stick],
             kyotaku' = kyotaku + 1,
             accepted_riichis' = accepted_riichis + 1,
             riichi_to_be_accepted' = Nobody
      PROVE  /\ accepted_riichis' = Cardinality(Accepted')
             /\ riichi_to_be_accepted' = Nobody
             /\ kyotaku' = Kyotaku0 + accepted_riichis'
             /\ \A p \in Seats :
                  /\ riichi_accepted'[p] = (riichi_accepted[p] \/ riichi_to_be_accepted = p)
                  /\ scores'[p] = Scores0[p] - (IF riichi_accepted'[p] THEN Stick ELSE 0)
  <2>1. riichi_accepted \in [Seats -> BOOLEAN] /\ scores \in [Seats -> Int]
        /\ accepted_riichis \in Int
    BY DEF TypeInv, SticksOK
  <2>2. ~riichi_accepted[q]
    BY <1>2 DEF SettledInv, SettledFor
  <2>3. Accepted' = Accepted \cup {q} /\ q \notin Accepted
    BY <1>2, <2>1, <2>2 DEF Accepted
  <2>4. Cardinality(Accepted') = Cardinality(Accepted) + 1
    BY <2>3, AcceptedFinite, FS_AddElement
  <2>5. kyotaku' = Kyotaku0 + accepted_riichis'
    BY <1>2, <2>1, Constants DEF SettledInv
  <2>6. ASSUME NEW p \in Seats
        PROVE  /\ riichi_accepted'[p] = (riichi_accepted[p] \/ riichi_to_be_accepted = p)
               /\ scores'[p] = Scores0[p] - (IF riichi_accepted'[p] THEN Stick ELSE 0)
    <3>1. scores[p] = Scores0[p] - (IF riichi_accepted[p] THEN Stick ELSE 0) /\ Scores0[p] \in Int
      BY Constants DEF SettledInv, SettledFor
    <3>2. CASE p = q
      <4>1. riichi_accepted'[p] = TRUE /\ scores'[p] = scores[p] - Stick
        BY <1>2, <2>1, <3>2
      <4>2. scores[p] = Scores0[p]
        BY <2>2, <3>1, <3>2
      <4> QED BY <1>2, <3>2, <4>1, <4>2
    <3>3. CASE p # q
      BY <1>2, <2>1, <3>1, <3>3
    <3> QED BY <3>2, <3>3
  <2> QED BY <1>2, <2>4, <2>5, <2>6 DEF SettledInv
<1> QED BY <1>1, <1>2 DEF CheckRiichiAccepted

(* After an acceptance the table is settled, if nobody's hand was opened     *)
(* whose owner had declared.                                                 *)
LEMMA AcceptingStep ==
  ASSUME TypeInv, SettledInv, CheckRiichiAccepted, phase # "end", phase' # "end",
         UNCHANGED riichi_declared,
         \A p \in Seats : riichi_declared[p] => IsMenzen(p)'
  PROVE  SettledInv'
<1>1. ASSUME NEW p \in Seats PROVE SettledFor(p)'
  <2>1. (riichi_declared[p] /\ ~riichi_accepted[p]) <=> riichi_to_be_accepted = p
    BY DEF SettledInv, SettledFor
  <2>2. ~(riichi_declared'[p] /\ ~riichi_accepted'[p]) /\ riichi_to_be_accepted' # p
    BY <2>1, AcceptSettledInv, Constants
  <2> QED BY <2>2, AcceptSettledInv DEF SettledFor
<1> QED BY <1>1, AcceptSettledInv DEF SettledInv, PendingInv

(* A caller is not in riichi and has none to be accepted. *)
LEMMA CallerUndeclared ==
  ASSUME TypeInv, SettledInv, NEW p \in Seats, MayCall(p)
  PROVE  ~riichi_declared[p]
  BY Constants DEF MayCall, SettledInv, SettledFor, PendingInv

(* A step that leaves the riichis alone, and no hand in riichi is opened. *)
LEMMA RiichisStay ==
  ASSUME TypeInv, SettledInv, UNCHANGED riichiVars, phase # "end", PendingInv',
         \A p \in Seats : riichi_declared[p] => IsMenzen(p)',
         phase' = "end" => riichi_to_be_accepted = Nobody \/ outcome' = "four_wind"
  PROVE  SettledInv'
<1>1. UNCHANGED <<riichi_declared, riichi_accepted, riichi_to_be_accepted, accepted_riichis,
                  scores, kyotaku>>
  BY DEF riichiVars, stickVars
<1>2. Accepted' = Accepted
  BY <1>1 DEF Accepted
<1>3. ASSUME NEW p \in Seats PROVE SettledFor(p)'
  BY <1>1 DEF SettledInv, SettledFor
<1> QED BY <1>1, <1>2, <1>3 DEF SettledInv

LEMMA ReachSettledInv ==
  ASSUME TypeInv, SettledInv, NEW p \in Seats, Reach(p)
  PROVE  SettledInv'
<1>1. /\ p = actor /\ phase = "turn" /\ phase' = "riichi" /\ ~riichi_accepted[p] /\ IsMenzen(p)
      /\ tiles_left >= 4
      /\ riichi_declared' = [riichi_declared EXCEPT ![p] = TRUE] /\ riichi_to_be_accepted' = p
      /\ UNCHANGED <<actor, tiles_left, chis, pons, minkans, riichi_accepted, accepted_riichis,
                     scores, kyotaku>>
  BY DEF Reach, HasDrawn, wallVars, meldVars
<1>2. riichi_to_be_accepted = Nobody /\ p # Nobody
  BY <1>1, Constants DEF SettledInv, PendingInv
<1>3. Accepted' = Accepted
  BY <1>1 DEF Accepted
<1>4. ASSUME NEW q \in Seats PROVE SettledFor(q)'
  <2>1. SettledFor(q) /\ riichi_declared \in [Seats -> BOOLEAN]
    BY DEF SettledInv, TypeInv, DeclaredOK
  <2>2. IsMenzen(q)' = IsMenzen(q)
    BY <1>1 DEF IsMenzen
  <2>3. CASE q = p
    BY <1>1, <1>2, <2>1, <2>2, <2>3 DEF SettledFor
  <2>4. CASE q # p
    BY <1>1, <1>2, <2>1, <2>2, <2>4, Constants DEF SettledFor
  <2> QED BY <2>3, <2>4
<1>5. PendingInv'
  BY <1>1 DEF PendingInv
<1> QED BY <1>1, <1>3, <1>4, <1>5 DEF SettledInv

(* Four accepted riichis are those of all four players: none waits. *)
LEMMA FourAccepted ==
  ASSUME TypeInv, SettledInv, ~Playing
  PROVE  riichi_to_be_accepted = Nobody
<1>1. accepted_riichis = 4
  BY DEF Playing, TypeInv, SticksOK
<1>3. Accepted = Seats
  BY <1>1, SeatsFinite, AcceptedFinite, FS_Subset DEF SettledInv
<1> QED BY <1>3 DEF SettledInv, SettledFor, Accepted, TypeInv, SticksOK

(* The end of a kyoku settles nothing: a riichi is left waiting only when    *)
(* its discard is won, or is the one after the fourth kan or wind.           *)
LEMMA EndSettledInv ==
  ASSUME TypeInv, SettledInv, EndStep,
         riichi_to_be_accepted # Nobody => outcome' \in {"hora", "four_kan", "four_wind"}
  PROVE  SettledInv'
<1>1. UNCHANGED <<riichi_declared, riichi_accepted, riichi_to_be_accepted, accepted_riichis,
                  actor, tiles_left, chis, pons, minkans>> /\ phase' = "end"
  BY DEF EndStep, tableVars, wallVars, meldVars
<1>2. Accepted' = Accepted
  BY <1>1 DEF Accepted
<1>3. ASSUME NEW p \in Seats PROVE SettledFor(p)'
  BY <1>1 DEF SettledInv, SettledFor, IsMenzen
<1> QED BY <1>1, <1>2, <1>3 DEF SettledInv, PendingInv

LEMMA NextSettledInv == TypeInv /\ SettledInv /\ [Next]_vars => SettledInv'
<1> SUFFICES ASSUME TypeInv, SettledInv, [Next]_vars PROVE SettledInv'
  OBVIOUS
<1>0. /\ PendingInv
      /\ \A p \in Seats : riichi_declared[p] => IsMenzen(p)
  BY DEF SettledInv, SettledFor
<1>1. CASE UNCHANGED vars
  <2>1. UNCHANGED <<phase, actor, tiles_left, chis, pons, minkans, riichi_declared, outcome,
                    riichi_accepted, riichi_to_be_accepted, accepted_riichis, scores, kyotaku>>
    BY <1>1 DEF vars, turnVars, wallVars, meldVars, riichiVars, stickVars, endVars
  <2> QED BY <2>1 DEF SettledInv, SettledFor, PendingInv, Accepted, IsMenzen
<1>2. CASE Haipai
  <2>1. /\ phase = "start" /\ phase' = "turn" /\ UNCHANGED <<riichiVars, chis, pons, minkans>>
        /\ riichi_to_be_accepted' = riichi_to_be_accepted
    BY <1>2 DEF Haipai, meldVars, riichiVars, stickVars
  <2> QED BY <1>0, <2>1, RiichisStay DEF PendingInv, IsMenzen
<1>3. CASE Draw
  <2>1. /\ phase # "end" /\ phase' # "end" /\ CheckRiichiAccepted
        /\ UNCHANGED <<riichi_declared, chis, pons, minkans>>
    BY <1>3 DEF Draw, meldVars
  <2> QED BY <1>0, <2>1, AcceptingStep DEF IsMenzen
<1>4. ASSUME NEW p \in Seats, Reach(p) PROVE SettledInv'
  BY <1>4, ReachSettledInv
<1>5. ASSUME NEW p \in Seats, Chi(p) \/ Pon(p) \/ Daiminkan(p) PROVE SettledInv'
  <2>1. /\ MayCall(p) /\ CheckRiichiAccepted /\ phase' # "end" /\ UNCHANGED riichi_declared
    BY <1>5 DEF Chi, Pon, Daiminkan
  <2>2. \A q \in Seats \ {p} : IsMenzen(q)' = IsMenzen(q)
    BY <1>5 DEF Chi, Pon, Daiminkan, OpenKan, IsMenzen, TypeInv, MeldsOK
  <2>3. ~riichi_declared[p] /\ phase # "end"
    BY <2>1, CallerUndeclared DEF MayCall
  <2> QED BY <1>0, <2>1, <2>2, <2>3, AcceptingStep
<1>6. ASSUME NEW p \in Seats, Kakan(p) PROVE SettledInv'
  <2>1. /\ phase = "turn" /\ phase' = "kakan" /\ UNCHANGED riichiVars
        /\ riichi_to_be_accepted' = riichi_to_be_accepted /\ pons[p] > 0
    BY <1>6 DEF Kakan, HasDrawn, riichiVars, stickVars
  <2>2. \A q \in Seats \ {p} : IsMenzen(q)' = IsMenzen(q)
    BY <1>6 DEF Kakan, OpenKan, IsMenzen, TypeInv, MeldsOK
  <2>3. ~riichi_declared[p]
    BY <1>0, <2>1 DEF IsMenzen
  <2> QED BY <1>0, <2>1, <2>2, <2>3, RiichisStay DEF PendingInv
<1>7. ASSUME NEW p \in Seats, Ankan(p) PROVE SettledInv'
  <2>1. /\ phase = "turn" /\ phase' = "rinshan" /\ UNCHANGED <<riichiVars, chis, pons, minkans>>
        /\ riichi_to_be_accepted' = riichi_to_be_accepted
    BY <1>7 DEF Ankan, HasDrawn, riichiVars, stickVars
  <2> QED BY <1>0, <2>1, RiichisStay DEF PendingInv, IsMenzen
<1>8. ASSUME NEW p \in Seats, NEW k \in Kinds, Dahai(p, k) PROVE SettledInv'
  <2>1. /\ p = actor /\ phase \in {"turn", "riichi", "called"} /\ actor' = p
        /\ phase' \in {"end", "discarded"} /\ (phase' = "end" => outcome' = "four_wind")
        /\ UNCHANGED <<riichiVars, chis, pons, minkans, tiles_left>>
        /\ riichi_to_be_accepted' = riichi_to_be_accepted
    BY <1>8 DEF Dahai, End, meldVars, riichiVars, stickVars
  <2>2. PendingInv'
    BY <1>0, <2>1 DEF PendingInv
  <2> QED BY <1>0, <2>1, <2>2, RiichisStay DEF IsMenzen
<1>9. ASSUME NEW winners \in SUBSET Seats, Ron(winners) PROVE SettledInv'
  BY <1>9, EndSteps, EndSettledInv DEF Ron, End
<1>10. ASSUME NEW p \in Seats, Tsumo(p) PROVE SettledInv'
  BY <1>10, EndSteps, EndSettledInv DEF Tsumo, End
<1>11. ASSUME NEW tenpai \in SUBSET Seats, ExhaustiveRyukyoku(tenpai) PROVE SettledInv'
  BY <1>0, <1>11, EndSteps, EndSettledInv DEF ExhaustiveRyukyoku, PendingInv
<1>12. ASSUME NEW p \in Seats, KyuushuKyuuhai(p) PROVE SettledInv'
  BY <1>0, <1>12, AbortiveSteps, EndSteps, EndSettledInv DEF KyuushuKyuuhai, HasDrawn, PendingInv
<1>13. CASE FourRiichi
  BY <1>13, FourAccepted, AbortiveSteps, EndSteps, EndSettledInv DEF FourRiichi
<1>14. CASE FourKan
  BY <1>14, AbortiveSteps, EndSteps, EndSettledInv DEF FourKan, AbortiveRyukyoku, End
<1> QED BY <1>1, <1>2, <1>3, <1>4, <1>5, <1>6, <1>7, <1>8, <1>9, <1>10, <1>11, <1>12, <1>13, <1>14
        DEF Next

LEMMA SettledInvHolds == Spec => [](TypeInv /\ SettledInv)
  BY InitSettledInv, NextSettledInv, TypeInvHolds, PTL DEF Spec

(* A declared riichi is paid exactly when its discard is not won on, and is  *)
(* settled before anybody draws or discards again (check_riichi_accepted).   *)
THEOREM RiichiAlwaysSettled == Spec => []RiichiSettled
  BY SettledInvHolds, SettledImplies, PTL

-----------------------------------------------------------------------------
(* Points. *)

(* Nobody is liable for a hand of his own. *)
PaoInv == \A p \in Seats : paos[p] # p

LEMMA NextPaoInv == TypeInv /\ PaoInv /\ [Next]_vars => PaoInv'
<1> SUFFICES ASSUME TypeInv, PaoInv, [Next]_vars PROVE PaoInv'
  OBVIOUS
<1>1. CASE UNCHANGED meldVars
  BY <1>1 DEF PaoInv, meldVars
<1>2. ASSUME NEW p \in Seats, UpdatePaos(p), p # actor PROVE PaoInv'
  BY <1>2 DEF UpdatePaos, PaoInv, TypeInv, MeldsOK
<1>3. ASSUME NEW p \in Seats, Pon(p) \/ Daiminkan(p) PROVE PaoInv'
  BY <1>2, <1>3 DEF Pon, Daiminkan, MayCall
<1>4. ASSUME NEW p \in Seats, Chi(p) \/ Kakan(p) \/ Ankan(p) PROVE PaoInv'
  BY <1>4 DEF Chi, Kakan, Ankan, PaoInv
<1>5. CASE EndStep
  BY <1>1, <1>5 DEF EndStep, tableVars
<1> QED BY <1>1, <1>3, <1>4, <1>5, OtherSteps, EndSteps, AbortiveSteps DEF Next, vars

LEMMA TotalType == ASSUME NEW d \in [Seats -> Int] PROVE Total(d) \in Int
  BY Constants DEF Total

(* Paying adds the total of the payments to the total of the scores. *)
LEMMA PayTotal ==
  ASSUME TypeInv, NEW d \in [Seats -> Int], Pay(d)
  PROVE  Total(scores') = Total(scores) + Total(d)
<1>1. \A p \in Seats : scores[p] \in Int /\ d[p] \in Int
  BY DEF TypeInv, SticksOK
<1>2. \A p \in Seats : scores'[p] = scores[p] + d[p]
  BY DEF Pay
<1>3. 0 \in Seats /\ 1 \in Seats /\ 2 \in Seats /\ 3 \in Seats
  BY Constants
<1> QED BY <1>1, <1>2, <1>3 DEF Total

LEMMA AddUpTotal ==
  ASSUME NEW deltas \in [Seats -> [Seats -> Int]]
  PROVE  Total(AddUp(deltas)) =
           Total(deltas[0]) + Total(deltas[1]) + Total(deltas[2]) + Total(deltas[3])
<1>1. 0 \in Seats /\ 1 \in Seats /\ 2 \in Seats /\ 3 \in Seats
  BY Constants
<1>2. \A q \in Seats, p \in Seats : deltas[q][p] \in Int
  OBVIOUS
<1>3. \A p \in Seats :
        AddUp(deltas)[p] = deltas[0][p] + deltas[1][p] + deltas[2][p] + deltas[3][p]
  BY DEF AddUp
<1> QED BY <1>1, <1>2, <1>3 DEF Total

(* The total of payments that are 0 but for the players x, y and z. *)
LEMMA ThreePay ==
  ASSUME NEW d \in [Seats -> Int], NEW x \in Seats, NEW y \in Seats, NEW z \in Seats,
         x # y, x # z, y # z,
         \A p \in Seats \ {x, y, z} : d[p] = 0
  PROVE  Total(d) = d[x] + d[y] + d[z]
<1>1. d[0] \in Int /\ d[1] \in Int /\ d[2] \in Int /\ d[3] \in Int
  BY Constants
<1> QED BY <1>1, Constants DEF Total

LEMMA TwoPay ==
  ASSUME NEW d \in [Seats -> Int], NEW x \in Seats, NEW y \in Seats, x # y,
         \A p \in Seats \ {x, y} : d[p] = 0
  PROVE  Total(d) = d[x] + d[y]
<1>1. d[0] \in Int /\ d[1] \in Int /\ d[2] \in Int /\ d[3] \in Int
  BY Constants
<1> QED BY <1>1, Constants DEF Total

(* A hand somebody is liable for is a yakuman: half of it is a whole number, *)
(* and won by tsumo it is worth what it is by ron.                           *)
LEMMA YakumanValue ==
  ASSUME NEW p \in Seats, NEW n \in Nat
  PROVE  /\ Yakuman(p = Oya, n).ron \div 2 + Yakuman(p = Oya, n).ron \div 2
               = Yakuman(p = Oya, n).ron
         /\ TsumoTotal(Yakuman(p = Oya, n), p = Oya) = Yakuman(p = Oya, n).ron
<1>1. CASE p = Oya
  <2>1. /\ Yakuman(p = Oya, n).ron = 48000 * n
        /\ Yakuman(p = Oya, n).tsumo_ko = 16000 * n
    BY <1>1 DEF Yakuman
  <2>2. (48000 * n) \div 2 = 24000 * n
    OBVIOUS
  <2> QED BY <1>1, <2>1, <2>2 DEF TsumoTotal
<1>2. CASE p # Oya
  <2>1. /\ Yakuman(p = Oya, n).ron = 32000 * n
        /\ Yakuman(p = Oya, n).tsumo_ko = 8000 * n
        /\ Yakuman(p = Oya, n).tsumo_oya = 16000 * n
    BY <1>2 DEF Yakuman
  <2>2. (32000 * n) \div 2 = 16000 * n
    OBVIOUS
  <2> QED BY <1>2, <2>1, <2>2 DEF TsumoTotal
<1> QED BY <1>1, <1>2

LEMMA PaoIsYakuman ==
  ASSUME NEW p \in Seats, paos[p] # Nobody, NEW point \in HandPoints(p)
  PROVE  /\ point.ron \div 2 + point.ron \div 2 = point.ron
         /\ TsumoTotal(point, p = Oya) = point.ron
<1>1. PICK n \in 1..MaxYakuman : point = Yakuman(p = Oya, n)
  BY DEF HandPoints
<1>2. n \in Nat
  BY TableAssumption
<1> QED BY <1>1, <1>2, YakumanValue

(* What the winner of a ron receives is what the others pay and, if he is    *)
(* the first one, the sticks on the table.                                   *)
LEMMA RonTotal ==
  ASSUME TypeInv, PaoInv, NEW w \in Seats, NEW target \in Seats, w # target,
         NEW ron \in Nat, NEW first,
         paos[w] # Nobody => ron \div 2 + ron \div 2 = ron
  PROVE  Total(RonDelta(w, target, ron, first)) = IF w = first THEN Stick * kyotaku ELSE 0
<1> DEFINE sticks == IF w = first THEN Stick * kyotaku ELSE 0
           counters == IF w = first THEN 300 * Honba ELSE 0
           half == ron \div 2
           d == RonDelta(w, target, ron, first)
<1>1. sticks \in Int /\ counters \in Int /\ half \in Int
  BY Constants DEF TypeInv, SticksOK, Stick
<1>2. d \in [Seats -> Int]
  BY RonDeltaType, TypeInvImpliesTypeOK
<1>3. \A p \in Seats :
        d[p] = IF p = w THEN ron + sticks + counters
               ELSE IF paos[w] = Nobody
                    THEN IF p = target THEN - ron - counters ELSE 0
               ELSE (IF p = paos[w] THEN - half - counters ELSE 0)
                    - (IF p = target THEN half ELSE 0)
  BY DEF RonDelta
<1> HIDE DEF sticks, counters, half, d
<1>4. d[w] = ron + sticks + counters
  BY <1>3
<1>5. CASE paos[w] = Nobody
  <2>1. d[target] = - ron - counters
    BY <1>3, <1>5
  <2>2. \A p \in Seats \ {w, target} : d[p] = 0
    BY <1>3, <1>5
  <2>3. Total(d) = d[w] + d[target]
    BY <1>2, <2>2, TwoPay
  <2>4. Total(d) = sticks
    BY <1>1, <1>4, <2>1, <2>3
  <2> QED BY <2>4 DEF d, sticks
<1>6. ASSUME paos[w] # Nobody, paos[w] = target
      PROVE  Total(d) = sticks
  <2>1. d[target] = - half - counters - half
    BY <1>1, <1>3, <1>6
  <2>2. \A p \in Seats \ {w, target} : d[p] = 0
    <3> SUFFICES ASSUME NEW p \in Seats, p # w, p # target PROVE d[p] = 0
      OBVIOUS
    <3>1. p # paos[w]
      BY <1>6
    <3>2. d[p] = 0 - 0
      BY <1>3, <1>6, <3>1
    <3> QED BY <3>2
  <2>3. Total(d) = d[w] + d[target]
    BY <1>2, <2>2, TwoPay
  <2>4. half + half = ron
    BY <1>6 DEF half
  <2> QED BY <1>1, <1>4, <2>1, <2>3, <2>4
<1>7. ASSUME paos[w] # Nobody, paos[w] # target
      PROVE  Total(d) = sticks
  <2> DEFINE z == paos[w]
  <2>1. z \in Seats /\ z # w /\ z # target
    BY <1>7 DEF PaoInv, TypeInv, MeldsOK
  <2>2. d[target] = - half
    BY <1>1, <1>3, <1>7
  <2>3. d[z] = - half - counters
    BY <1>1, <1>3, <1>7, <2>1
  <2>4. \A p \in Seats \ {w, target, z} : d[p] = 0
    <3> SUFFICES ASSUME NEW p \in Seats, p # w, p # target, p # paos[w] PROVE d[p] = 0
      OBVIOUS
    <3>1. d[p] = 0 - 0
      BY <1>3, <1>7
    <3> QED BY <3>1
  <2> HIDE DEF z
  <2>5. Total(d) = d[w] + d[target] + d[z]
    BY <1>2, <2>1, <2>4, ThreePay
  <2>6. half + half = ron
    BY <1>7 DEF half
  <2> QED BY <1>1, <1>4, <2>2, <2>3, <2>5, <2>6
<1>8. Total(d) = sticks
  BY <1>5, <1>6, <1>7 DEF d, sticks
<1> QED BY <1>8 DEF d, sticks

(* Among the winners one is the nearest after the discarder. *)
LEMMA FirstWinnerIsWinner ==
  ASSUME NEW winners \in SUBSET Seats, winners # {}, NEW target \in Seats
  PROVE  FirstWinner(winners, target) \in winners
<1>1. \A p \in Seats : Distance(target, p) \in {0, 1, 2, 3}
  BY DEF Distance, Seats
<1> DEFINE At(n) == \E v \in winners : Distance(target, v) = n
<1>2. \E w \in winners : \A v \in winners : Distance(target, w) <= Distance(target, v)
  <2>1. CASE At(0)
    BY <1>1, <2>1
  <2>2. CASE ~At(0) /\ At(1)
    BY <1>1, <2>2
  <2>3. CASE ~At(0) /\ ~At(1) /\ At(2)
    BY <1>1, <2>3
  <2>4. CASE ~At(0) /\ ~At(1) /\ ~At(2) /\ At(3)
    BY <1>1, <2>4
  <2> QED BY <1>1, <2>1, <2>2, <2>3, <2>4
<1> QED BY <1>2 DEF FirstWinner

(* Payments of 0 for each of four players. *)
LEMMA ZeroTotal == Zero \in [Seats -> Int] /\ Total(Zero) = 0
  BY Constants DEF Zero, Total

LEMMA RonConserves ==
  ASSUME TypeInv, PaoInv, NEW winners \in SUBSET Seats, Ron(winners)
  PROVE  Purse(scores', kyotaku') = Purse(scores, kyotaku)
<1> DEFINE first == FirstWinner(winners, actor)
           Deltas(ron) == [w \in Seats |-> IF w \in winners
                                           THEN RonDelta(w, actor, ron[w], first) ELSE Zero]
           pot == Stick * kyotaku
<1>0. /\ actor \in Seats /\ winners # {} /\ actor \notin winners /\ kyotaku' = 0
      /\ first \in winners /\ pot \in Int
  BY FirstWinnerIsWinner DEF Ron, TypeInv, TurnOK, SticksOK, Stick
<1> HIDE DEF first
<1>1. PICK ron : /\ \A w \in winners : \E point \in HandPoints(w) : ron[w] = point.ron
                 /\ Pay(AddUp(Deltas(ron)))
  BY DEF Ron, first
<1>2. ASSUME NEW w \in winners
      PROVE  /\ RonDelta(w, actor, ron[w], first) \in [Seats -> Int]
             /\ Total(RonDelta(w, actor, ron[w], first)) = IF w = first THEN pot ELSE 0
  <2>1. PICK point \in HandPoints(w) : ron[w] = point.ron
    BY <1>1
  <2>2. point.ron \in Nat
    BY HandPointsType, TypeInvImpliesTypeOK DEF Points
  <2>3. paos[w] # Nobody => ron[w] \div 2 + ron[w] \div 2 = ron[w]
    BY <2>1, PaoIsYakuman
  <2> QED BY <1>0, <2>1, <2>2, <2>3, RonTotal, RonDeltaType, TypeInvImpliesTypeOK
<1> DEFINE deltas == Deltas(ron)
<1>3. deltas \in [Seats -> [Seats -> Int]]
  BY <1>2, ZeroTotal
<1>4. \A w \in Seats : Total(deltas[w]) = IF w = first THEN pot ELSE 0
  BY <1>0, <1>2, ZeroTotal
<1> HIDE DEF deltas, pot
<1>5. Total(AddUp(deltas)) = pot
  <2>1. first \in {0, 1, 2, 3}
    BY <1>0, Constants
  <2> QED BY <1>0, <1>3, <1>4, <2>1, AddUpTotal, Constants
<1>6. Total(scores') = Total(scores) + pot
  BY <1>1, <1>3, <1>5, AddUpType, PayTotal DEF deltas
<1> QED BY <1>0, <1>6, TotalType DEF Purse, pot, TypeInv, SticksOK, Stick

LEMMA TsumoTotalPaid ==
  ASSUME TypeInv, PaoInv, NEW w \in Seats, NEW point \in Points,
         paos[w] # Nobody => TsumoTotal(point, w = Oya) = point.ron
  PROVE  Total(TsumoDelta(w, point)) = Stick * kyotaku
<1> DEFINE d == TsumoDelta(w, point)
           pot == Stick * kyotaku
           worth == TsumoTotal(point, w = Oya)
<1>1. /\ point.ron \in Nat /\ point.tsumo_ko \in Nat /\ point.tsumo_oya \in Nat
      /\ pot \in Int /\ Honba \in Int
  BY Constants DEF Points, TypeInv, SticksOK, Stick
<1>2. d \in [Seats -> Int]
  BY TsumoDeltaType, TypeInvImpliesTypeOK
<1>3. \A p \in Seats :
        d[p] = IF p = w THEN worth + pot + 300 * Honba
               ELSE IF paos[w] # Nobody
                    THEN IF p = paos[w] THEN - point.ron - 300 * Honba ELSE 0
               ELSE IF p = Oya THEN - point.tsumo_oya - 100 * Honba
               ELSE - point.tsumo_ko - 100 * Honba
  BY DEF TsumoDelta
<1>4. worth \in Int
  BY <1>1 DEF TsumoTotal
<1>5. CASE paos[w] # Nobody
  <2> DEFINE z == paos[w]
  <2>1. z \in Seats /\ z # w
    BY <1>5 DEF PaoInv, TypeInv, MeldsOK
  <2> HIDE DEF d, pot, worth
  <2>2. d[z] = - point.ron - 300 * Honba /\ d[w] = worth + pot + 300 * Honba
    BY <1>3, <1>5, <2>1
  <2>3. \A p \in Seats \ {w, z} : d[p] = 0
    BY <1>3, <1>5
  <2> HIDE DEF z
  <2>4. Total(d) = d[w] + d[z]
    BY <1>2, <2>1, <2>3, TwoPay
  <2>5. worth = point.ron
    BY <1>5 DEF worth
  <2>6. Total(d) = pot
    BY <1>1, <2>2, <2>4, <2>5
  <2> QED BY <2>6 DEF d, pot
<1>6. CASE paos[w] = Nobody /\ w = Oya
  <2>1. worth = point.tsumo_ko * 3
    BY <1>6 DEF TsumoTotal
  <2> HIDE DEF d, pot, worth
  <2>2. \A p \in Seats : d[p] = IF p = w THEN worth + pot + 300 * Honba
                                ELSE - point.tsumo_ko - 100 * Honba
    BY <1>3, <1>6
  <2>3. Total(d) = worth + pot + 300 * Honba - 3 * point.tsumo_ko - 300 * Honba
    BY <1>1, <1>4, <2>2, Constants DEF Total
  <2>4. Total(d) = pot
    BY <1>1, <2>1, <2>3
  <2> QED BY <2>4 DEF d, pot
<1>7. CASE paos[w] = Nobody /\ w # Oya
  <2>1. worth = point.tsumo_ko * 2 + point.tsumo_oya
    BY <1>7 DEF TsumoTotal
  <2> HIDE DEF d, pot, worth
  <2>2. \A p \in Seats : d[p] = IF p = w THEN worth + pot + 300 * Honba
                                ELSE IF p = Oya THEN - point.tsumo_oya - 100 * Honba
                                ELSE - point.tsumo_ko - 100 * Honba
    BY <1>3, <1>7
  <2>3. Total(d) = worth + pot + 300 * Honba - point.tsumo_oya - 2 * point.tsumo_ko - 300 * Honba
    BY <1>1, <1>4, <1>7, <2>2, Constants DEF Total
  <2>4. Total(d) = pot
    BY <1>1, <2>1, <2>3
  <2> QED BY <2>4 DEF d, pot
<1> QED BY <1>5, <1>6, <1>7

LEMMA TsumoConserves ==
  ASSUME TypeInv, PaoInv, NEW p \in Seats, Tsumo(p)
  PROVE  Purse(scores', kyotaku') = Purse(scores, kyotaku)
<1>1. PICK point \in TsumoPoints(p) : Pay(TsumoDelta(p, point))
  BY DEF Tsumo
<1>2. point \in Points
  BY TsumoPointsType, TypeInvImpliesTypeOK
<1>3. paos[p] # Nobody => TsumoTotal(point, p = Oya) = point.ron
  BY PaoIsYakuman, YakumanValue DEF TsumoPoints
<1>4. TsumoDelta(p, point) \in [Seats -> Int]
  BY <1>2, TsumoDeltaType, TypeInvImpliesTypeOK
<1>5. Total(TsumoDelta(p, point)) = Stick * kyotaku
  BY <1>2, <1>3, TsumoTotalPaid
<1>6. Total(scores') = Total(scores) + Stick * kyotaku
  BY <1>1, <1>4, <1>5, PayTotal
<1> QED BY <1>6, TotalType DEF Tsumo, Purse, TypeInv, SticksOK, Stick

LEMMA NagashiTotal == ASSUME NEW w \in Seats PROVE Total(NagashiDelta(w)) = 0
<1> DEFINE d == NagashiDelta(w)
<1>1. \A p \in Seats : d[p] = IF p = w THEN IF w = Oya THEN 12000 ELSE 8000
                              ELSE IF w = Oya \/ p = Oya THEN -4000 ELSE -2000
  BY DEF NagashiDelta
<1> HIDE DEF d
<1>2. Total(d) = 0
  <2>1. CASE w = Oya
    BY <1>1, <2>1, Constants DEF Total
  <2>2. CASE w # Oya
    BY <1>1, <2>2, Constants DEF Total
  <2> QED BY <2>1, <2>2
<1> QED BY <1>2 DEF d

Has(S, p) == IF p \in S THEN 1 ELSE 0

(* The members of a set of seats, counted seat by seat. *)
LEMMA CountOneMore ==
  ASSUME NEW S, NEW T, IsFiniteSet(T), NEW k, k \notin T, NEW U, U = T \cup {k}
  PROVE  /\ IsFiniteSet(U)
         /\ Cardinality(S \cap U) = Cardinality(S \cap T) + Has(S, k)
<1>1. IsFiniteSet(S \cap T) /\ Cardinality(S \cap T) \in Nat
  BY FS_Subset, FS_CardinalityType
<1>2. IsFiniteSet(U)
  BY FS_AddElement
<1>3. CASE k \in S
  <2>1. S \cap U = (S \cap T) \cup {k} /\ k \notin S \cap T
    BY <1>3
  <2> QED BY <1>1, <1>2, <1>3, <2>1, FS_AddElement DEF Has
<1>4. CASE k \notin S
  <2>1. S \cap U = S \cap T
    BY <1>4
  <2>2. Has(S, k) = 0
    BY <1>4 DEF Has
  <2>3. Cardinality(S \cap U) = Cardinality(S \cap T)
    BY <2>1, Zenon
  <2> QED BY <1>1, <1>2, <2>2, <2>3
<1> QED BY <1>3, <1>4

LEMMA SeatCount ==
  ASSUME NEW S \in SUBSET Seats
  PROVE  Cardinality(S) = Has(S, 0) + Has(S, 1) + Has(S, 2) + Has(S, 3)
<1> DEFINE none == {}
           one == {0}
           two == {0, 1}
           three == {0, 1, 2}
<1>1. /\ 0 \notin none /\ one = none \cup {0}
      /\ 1 \notin one /\ two = one \cup {1}
      /\ 2 \notin two /\ three = two \cup {2}
      /\ 3 \notin three
  OBVIOUS
<1>2. Seats = three \cup {3}
  BY Constants
<1>3. IsFiniteSet(none)
  BY FS_EmptySet
<1>4. Cardinality(S \cap none) = 0
  <2>1. S \cap none = {}
    OBVIOUS
  <2> QED BY <2>1, FS_EmptySet
<1> HIDE DEF none, one, two, three
<1>5. IsFiniteSet(one) /\ Cardinality(S \cap one) = Cardinality(S \cap none) + Has(S, 0)
  <2>1. 0 \notin none /\ IsFiniteSet(none) /\ one = none \cup {0}
    BY <1>1, <1>3
  <2> QED BY <2>1, CountOneMore
<1>6. IsFiniteSet(two) /\ Cardinality(S \cap two) = Cardinality(S \cap one) + Has(S, 1)
  <2>1. 1 \notin one /\ IsFiniteSet(one) /\ two = one \cup {1}
    BY <1>1, <1>5
  <2> QED BY <2>1, CountOneMore
<1>7. IsFiniteSet(three) /\ Cardinality(S \cap three) = Cardinality(S \cap two) + Has(S, 2)
  <2>1. 2 \notin two /\ IsFiniteSet(two) /\ three = two \cup {2}
    BY <1>1, <1>6
  <2> QED BY <2>1, CountOneMore
<1>8. Cardinality(S \cap Seats) = Cardinality(S \cap three) + Has(S, 3)
  <2>1. 3 \notin three /\ IsFiniteSet(three)
    BY <1>1, <1>7
  <2> QED BY <1>2, <2>1, CountOneMore
<1>9. Cardinality(S) = Cardinality(S \cap Seats)
  <2>1. S = S \cap Seats
    OBVIOUS
  <2> QED BY <2>1, Zenon
<1> QED BY <1>4, <1>5, <1>6, <1>7, <1>8, <1>9 DEF Has

LEMMA TenpaiTotal == ASSUME NEW tenpai \in SUBSET Seats PROVE Total(TenpaiDelta(tenpai)) = 0
<1> DEFINE pay(plus, minus) == [p \in Seats |-> IF p \in tenpai THEN plus ELSE minus]
           n == Cardinality(tenpai)
<1>1. n = Has(tenpai, 0) + Has(tenpai, 1) + Has(tenpai, 2) + Has(tenpai, 3)
  BY SeatCount
<1>2. ASSUME NEW plus \in Int, NEW minus \in Int
      PROVE  Total(pay(plus, minus)) = n * plus + (4 - n) * minus
  <2> DEFINE one(p) == IF p \in tenpai THEN plus ELSE minus
  <2>1. Total(pay(plus, minus)) = one(0) + one(1) + one(2) + one(3)
    BY Constants DEF Total
  <2>2. ASSUME NEW p PROVE one(p) = Has(tenpai, p) * plus + (1 - Has(tenpai, p)) * minus
    BY DEF Has
  <2>3. \A p : Has(tenpai, p) \in {0, 1}
    BY DEF Has
  <2> HIDE DEF one, n
  <2> QED BY <1>1, <2>1, <2>2, <2>3
<1>3. TenpaiDelta(tenpai) = IF n = 1 THEN pay(3000, -1000)
                            ELSE IF n = 2 THEN pay(1500, -1500)
                            ELSE IF n = 3 THEN pay(1000, -3000) ELSE Zero
  <2>1. n \in Int
    BY <1>1 DEF Has
  <2> QED BY <2>1 DEF TenpaiDelta
<1> HIDE DEF pay, n
<1>4. /\ Total(pay(3000, -1000)) = n * 3000 + (4 - n) * (-1000)
      /\ Total(pay(1500, -1500)) = n * 1500 + (4 - n) * (-1500)
      /\ Total(pay(1000, -3000)) = n * 1000 + (4 - n) * (-3000)
  BY <1>2
<1>5. CASE n = 1
  BY <1>3, <1>4, <1>5
<1>6. CASE n = 2
  BY <1>3, <1>4, <1>6
<1>7. CASE n = 3
  BY <1>3, <1>4, <1>7
<1> QED BY <1>3, <1>5, <1>6, <1>7, ZeroTotal

LEMMA RyukyokuConserves ==
  ASSUME TypeInv, NEW tenpai \in SUBSET Seats, ExhaustiveRyukyoku(tenpai)
  PROVE  Purse(scores', kyotaku') = Purse(scores, kyotaku)
<1> DEFINE nagashi == {p \in Seats : can_nagashi_mangan[p]}
           deltas == [w \in Seats |-> IF w \in nagashi THEN NagashiDelta(w) ELSE Zero]
<1>1. deltas \in [Seats -> [Seats -> Int]] /\ \A w \in Seats : Total(deltas[w]) = 0
  BY NagashiDeltaType, NagashiTotal, ZeroTotal
<1>2. Pay(TenpaiDelta(tenpai)) \/ Pay(AddUp(deltas))
  BY DEF ExhaustiveRyukyoku
<1>3. kyotaku' = kyotaku
  BY DEF ExhaustiveRyukyoku
<1> HIDE DEF deltas
<1>4. AddUp(deltas) \in [Seats -> Int] /\ Total(AddUp(deltas)) = 0
  <2>1. AddUp(deltas) \in [Seats -> Int]
    BY <1>1, AddUpType
  <2>2. Total(AddUp(deltas)) =
          Total(deltas[0]) + Total(deltas[1]) + Total(deltas[2]) + Total(deltas[3])
    BY <1>1, AddUpTotal
  <2> QED BY <1>1, <2>1, <2>2, Constants
<1>5. Total(scores') = Total(scores) + 0
  BY <1>2, <1>4, TenpaiDeltaType, TenpaiTotal, PayTotal
<1>6. Total(scores) \in Int
  BY TotalType DEF TypeInv, SticksOK
<1> QED BY <1>3, <1>5, <1>6 DEF Purse

(* The stick of an accepted riichi moves from its owner to the table. *)
LEMMA AcceptConserves ==
  ASSUME TypeInv, CheckRiichiAccepted
  PROVE  Purse(scores', kyotaku') = Purse(scores, kyotaku)
<1>1. CASE UNCHANGED stickVars
  BY <1>1 DEF stickVars, Purse, Total
<1>2. ASSUME NEW p \in Seats,
             scores' = [scores EXCEPT ![p] = @ - Stick], kyotaku' = kyotaku + 1
      PROVE  Purse(scores', kyotaku') = Purse(scores, kyotaku)
  <2>1. /\ scores[0] \in Int /\ scores[1] \in Int /\ scores[2] \in Int /\ scores[3] \in Int
        /\ kyotaku \in Int
    BY Constants DEF TypeInv, SticksOK
  <2>2. \A q \in Seats : scores'[q] = IF q = p THEN scores[q] - 1000 ELSE scores[q]
    BY <1>2 DEF TypeInv, SticksOK, Stick
  <2> QED BY <1>2, <2>1, <2>2, Constants DEF Purse, Total, Stick
<1> QED BY <1>1, <1>2 DEF CheckRiichiAccepted

LEMMA NextConserves ==
  TypeInv /\ PaoInv /\ [Next]_vars => Purse(scores', kyotaku') = Purse(scores, kyotaku)
<1> SUFFICES ASSUME TypeInv, PaoInv, [Next]_vars
             PROVE  Purse(scores', kyotaku') = Purse(scores, kyotaku)
  OBVIOUS
<1>1. CASE UNCHANGED stickVars
  BY <1>1 DEF stickVars
<1>2. CASE UNCHANGED vars \/ Haipai
  BY <1>1, <1>2 DEF vars, Haipai, riichiVars
<1>3. CASE Draw \/ \E p \in Seats : Chi(p) \/ Pon(p) \/ Daiminkan(p)
  BY <1>3, AcceptConserves DEF Draw, Chi, Pon, Daiminkan
<1>4. ASSUME NEW p \in Seats, Reach(p) PROVE UNCHANGED <<scores, kyotaku>>
  BY <1>4 DEF Reach
<1>5. ASSUME NEW p \in Seats, Kakan(p) \/ Ankan(p) PROVE UNCHANGED <<scores, kyotaku>>
  BY <1>5 DEF Kakan, Ankan, riichiVars, stickVars
<1>6. ASSUME NEW p \in Seats, NEW k \in Kinds, Dahai(p, k) PROVE UNCHANGED <<scores, kyotaku>>
  BY <1>6 DEF Dahai, riichiVars, stickVars
<1>7. CASE AbortiveStep
  BY <1>7 DEF AbortiveStep, AbortiveRyukyoku
<1>8. CASE UNCHANGED <<scores, kyotaku>>
  BY <1>8
<1> QED BY <1>2, <1>3, <1>4, <1>5, <1>6, <1>7, <1>8, RonConserves, TsumoConserves,
           RyukyokuConserves, AbortiveSteps DEF Next

(* No payment of board.rs makes or loses a point: sticks, ron of one or      *)
(* several players, pao, tsumo, nagashi mangan, noten payments.              *)
THEOREM NoPointIsLost == Spec => []PointsConserved
<1>1. Init => PointsConserved /\ PaoInv
  BY Constants DEF Init, PointsConserved, PaoInv
<1>2. TypeInv /\ PaoInv /\ PointsConserved /\ [Next]_vars => PointsConserved'
  BY NextConserves DEF PointsConserved
<1> QED BY <1>1, <1>2, NextPaoInv, TypeInvHolds, PTL DEF Spec

-----------------------------------------------------------------------------
(* What the kyoku owes to the game. *)

(* What the result owes to Game::poll beside the points, through the kyoku. *)
ContractInv ==
  /\ phase # "end" => outcome = "none"
  /\ outcome = "hora" => kyotaku = 0
  /\ outcome # "hora" => kyotaku = Kyotaku0 + accepted_riichis
  /\ outcome \in AbortiveEnds =>
       /\ can_renchan
       /\ \A p \in Seats : scores[p] = Scores0[p] - (IF riichi_accepted[p] THEN Stick ELSE 0)

LEMMA InitContractInv == Init => ContractInv
  BY Constants DEF Init, ContractInv, AbortiveEnds

(* Until the kyoku ends the sticks are those of the riichis. *)
LEMMA PlayingOn ==
  ASSUME SettledInv', phase' # "end", outcome' = "none"
  PROVE  ContractInv'
  BY DEF SettledInv, ContractInv, AbortiveEnds

LEMMA AbortiveContractInv ==
  ASSUME SettledInv, ContractInv, phase # "end", phase' = "end", outcome' \in AbortiveEnds,
         can_renchan' = TRUE, UNCHANGED <<scores, kyotaku, riichi_accepted, accepted_riichis>>
  PROVE  ContractInv'
  BY DEF SettledInv, SettledFor, ContractInv, AbortiveEnds

LEMMA NextContractInv ==
  TypeInv /\ SettledInv /\ SettledInv' /\ ContractInv /\ [Next]_vars => ContractInv'
<1> SUFFICES ASSUME TypeInv, SettledInv, SettledInv', ContractInv, [Next]_vars PROVE ContractInv'
  OBVIOUS
<1>1. CASE UNCHANGED vars
  <2>1. UNCHANGED <<phase, outcome, can_renchan, kyotaku, scores, accepted_riichis, riichi_accepted>>
    BY <1>1 DEF vars, turnVars, riichiVars, stickVars, endVars
  <2> QED BY <2>1 DEF ContractInv
<1>2. ASSUME phase # "end", phase' # "end", UNCHANGED endVars PROVE ContractInv'
  BY <1>2, PlayingOn DEF ContractInv, endVars
<1>3. CASE Haipai \/ Draw
  BY <1>2, <1>3 DEF Haipai, Draw
<1>4. ASSUME NEW p \in Seats,
             Reach(p) \/ Chi(p) \/ Pon(p) \/ Daiminkan(p) \/ Kakan(p) \/ Ankan(p)
      PROVE  ContractInv'
  BY <1>2, <1>4 DEF Reach, Chi, Pon, Daiminkan, Kakan, Ankan, HasDrawn, MayCall
<1>5. ASSUME NEW p \in Seats, NEW k \in Kinds, Dahai(p, k) PROVE ContractInv'
  <2>1. CASE FourWind(p, k).abort
    <3>1. /\ phase # "end" /\ phase' = "end" /\ outcome' \in AbortiveEnds /\ can_renchan' = TRUE
          /\ UNCHANGED <<scores, kyotaku, riichi_accepted, accepted_riichis>>
      BY <1>5, <2>1 DEF Dahai, End, AbortiveEnds, riichiVars, stickVars
    <3> QED BY <3>1, AbortiveContractInv
  <2>2. CASE ~FourWind(p, k).abort
    BY <1>2, <1>5, <2>2 DEF Dahai
  <2> QED BY <2>1, <2>2
<1>6. ASSUME NEW winners \in SUBSET Seats, Ron(winners) PROVE ContractInv'
  BY <1>6 DEF Ron, End, ContractInv, AbortiveEnds
<1>7. ASSUME NEW p \in Seats, Tsumo(p) PROVE ContractInv'
  BY <1>7 DEF Tsumo, End, ContractInv, AbortiveEnds
<1>8. ASSUME NEW tenpai \in SUBSET Seats, ExhaustiveRyukyoku(tenpai) PROVE ContractInv'
  BY <1>8 DEF ExhaustiveRyukyoku, End, tableVars, ContractInv, AbortiveEnds
<1>9. CASE AbortiveStep
  <2>1. PICK how \in AbortiveEnds : phase # "end" /\ AbortiveRyukyoku(how)
    BY <1>9 DEF AbortiveStep
  <2>2. /\ phase' = "end" /\ outcome' \in AbortiveEnds /\ can_renchan' = TRUE
        /\ UNCHANGED <<scores, kyotaku, riichi_accepted, accepted_riichis>>
    BY <2>1 DEF AbortiveRyukyoku, End, tableVars
  <2> QED BY <2>1, <2>2, AbortiveContractInv
<1> QED BY <1>1, <1>3, <1>4, <1>5, <1>6, <1>7, <1>8, <1>9, AbortiveSteps DEF Next

LEMMA ContractOfResult ==
  TypeInv /\ SettledInv /\ ContractInv /\ PointsConserved => KeepsContract
<1> SUFFICES ASSUME TypeInv, SettledInv, ContractInv, PointsConserved, phase = "end"
             PROVE  LegalOutcome(Scores0, Kyotaku0, Result)
  BY DEF KeepsContract
<1>1. /\ Result.scores = scores /\ Result.kyotaku = kyotaku /\ Result.can_renchan = can_renchan
      /\ Result.has_hora = (outcome = "hora") /\ Result.has_abortive = (outcome \in AbortiveEnds)
  BY DEF Result
<1>2. accepted_riichis \in 0..4 /\ kyotaku \in Nat
  BY DEF TypeInv, SticksOK
<1>3. outcome # "hora" => kyotaku \in Kyotaku0 .. Kyotaku0 + 4
  BY <1>2, Constants DEF ContractInv
<1>4. outcome \in AbortiveEnds => outcome # "hora"
  BY DEF AbortiveEnds
<1>5. outcome \in AbortiveEnds =>
        \A p \in Seats : scores[p] \in {Scores0[p], Scores0[p] - Stick}
  BY Constants DEF ContractInv
<1> QED BY <1>1, <1>3, <1>4, <1>5 DEF ContractInv, PointsConserved, LegalOutcome

(* `end` returns to Game::poll what module Hanchan takes for granted: the    *)
(* points are kept, a win takes every stick, an abortive draw leaves the     *)
(* dealer and costs nobody more than his stick.                              *)
THEOREM ContractKept == Spec => []KeepsContract
<1>1. Spec => [](TypeInv /\ SettledInv /\ ContractInv)
  BY InitContractInv, NextContractInv, SettledInvHolds, PTL DEF Spec
<1> QED BY <1>1, ContractOfResult, NoPointIsLost, PTL

-----------------------------------------------------------------------------
(* Four winds. *)

(* The how-manieth player after the dealer. *)
Turn(q) == (q + 4 - Oya) % 4

(* An undisturbed first go-around: the discards so far are those of the      *)
(* dealer and the players after him, in their order.                         *)
GoAround ==
  /\ phase \in {"start", "turn", "riichi", "discarded"}
  /\ opening \in Seq(Kinds) /\ Len(opening) < 4
  /\ opening # <<>> => opening[1] = four_wind_tile
  /\ opening = <<>> <=> four_wind_tile = NoTile
  /\ \A q \in Seats : can_w_riichi[q] <=> Turn(q) >= Len(opening)
  /\ phase = "start" => opening = <<>>
  /\ phase \in {"turn", "riichi"} => Turn(actor) = Len(opening)
  /\ phase = "discarded" => Turn(tsumo_actor) = Len(opening)
  /\ \A q \in Seats : pons[q] = 0

OpeningInv ==
  /\ phase # "end" => /\ outcome = "none"
                      /\ opening # NoTile <=> can_four_wind
                      /\ can_four_wind => GoAround
  /\ FourWindsExact

LEMMA TurnType ==
  ASSUME NEW q \in Seats
  PROVE  /\ Turn(q) \in 0..3
         /\ \A r \in Seats : Turn(r) = Turn(q) => r = q
         /\ Turn(q) < 3 => Turn(Shimocha(q)) = Turn(q) + 1
         /\ Turn(q) = 3 => Turn(Shimocha(q)) = 0
<1>1. Oya \in {0, 1, 2, 3}
  BY Constants
<1>2. q \in {0, 1, 2, 3}
  BY Constants
<1>3. Turn(q) \in 0..3 /\ \A r \in Seats : Turn(r) = Turn(q) => r = q
  BY <1>1, <1>2, Constants DEF Turn
<1>4. Turn(q) < 3 => Turn(Shimocha(q)) = Turn(q) + 1
  BY <1>1, <1>2 DEF Turn, Shimocha
<1>5. Turn(q) = 3 => Turn(Shimocha(q)) = 0
  BY <1>1, <1>2 DEF Turn, Shimocha
<1> QED BY <1>3, <1>4, <1>5

LEMMA NoTileIsNoOpening == NoTile \notin Seq(Kinds) /\ NoTile # <<>>
<1>1. <<>> \in Seq(Kinds)
  OBVIOUS
<1> QED BY <1>1, KindsAssumption

LEMMA InitOpeningInv == Init => OpeningInv
<1> SUFFICES ASSUME Init PROVE OpeningInv
  OBVIOUS
<1>1. opening = <<>> /\ opening \in Seq(Kinds) /\ Len(opening) = 0
  BY DEF Init
<1>2. \A q \in Seats : can_w_riichi[q] /\ pons[q] = 0
  BY DEF Init, All, Zero
<1>3. \A q \in Seats : Turn(q) >= 0
  <2>1. ASSUME NEW q \in Seats PROVE Turn(q) >= 0
    <3>1. Turn(q) \in 0..3
      BY TurnType
    <3> QED BY <3>1
  <2> QED BY <2>1
<1>4. GoAround
  BY <1>1, <1>2, <1>3 DEF Init, GoAround
<1> QED BY <1>1, <1>4, NoTileIsNoOpening DEF Init, OpeningInv, FourWindsExact

(* A step that ends the first go-around, if it has not ended before. *)
LEMMA Disturbed ==
  ASSUME OpeningInv, phase # "end", phase' # "end", UNCHANGED outcome,
         ~can_four_wind', opening' = NoTile
  PROVE  OpeningInv'
  BY DEF OpeningInv, FourWindsExact

(* The end of a kyoku for another reason. *)
LEMMA OtherEnd ==
  ASSUME OpeningInv, phase # "end", phase' = "end", outcome' # "four_wind", UNCHANGED opening
  PROVE  OpeningInv'
<1>1. ~(opening # NoTile /\ Len(opening) = 4)
  BY DEF OpeningInv, GoAround
<1> QED BY <1>1 DEF OpeningInv, FourWindsExact

(* A step that discards nothing and disturbs nothing. *)
LEMMA GoesOn ==
  ASSUME OpeningInv, phase # "end", phase' # "end", UNCHANGED <<openVars, outcome>>,
         can_four_wind => GoAround'
  PROVE  OpeningInv'
<1>1. UNCHANGED <<can_four_wind, opening, outcome>>
  BY DEF openVars
<1> QED BY <1>1 DEF OpeningInv, FourWindsExact

LEMMA DahaiOpeningInv ==
  ASSUME TypeInv, OpeningInv, NEW p \in Seats, NEW k \in Kinds, Dahai(p, k)
  PROVE  OpeningInv'
<1> DEFINE wind == FourWind(p, k)
           n == Len(opening)
<1>1. /\ p = actor /\ phase \in {"turn", "riichi", "called"} /\ tsumo_actor' = Shimocha(p)
      /\ can_w_riichi' = [can_w_riichi EXCEPT ![p] = FALSE]
      /\ can_four_wind' = wind.can /\ four_wind_tile' = wind.tile
      /\ UNCHANGED pons
  BY DEF Dahai, meldVars
<1>2. opening' = IF \/ opening = NoTile \/ k \notin Winds
                    \/ opening # <<>> /\ (n = 4 \/ opening[1] # k)
                 THEN NoTile ELSE Append(opening, k)
  BY DEF Dahai
<1>3. IF wind.abort THEN phase' = "end" /\ outcome' = "four_wind"
                    ELSE phase' = "discarded" /\ outcome' = outcome
  BY DEF Dahai, End, endVars
<1>4. outcome = "none" /\ phase # "end"
  BY <1>1 DEF OpeningInv
<1>5. CASE ~can_four_wind \/ k \notin Winds
  <2>1. opening' = NoTile
    BY <1>1, <1>2, <1>4, <1>5 DEF OpeningInv
  <2>2. ~wind.can /\ ~wind.abort
    BY <1>5 DEF FourWind
  <2> QED BY <1>1, <1>3, <1>4, <2>1, <2>2, Disturbed
<1>6. CASE can_four_wind /\ k \in Winds
  <2>1. /\ opening \in Seq(Kinds) /\ opening # NoTile /\ n \in 0..3 /\ Turn(p) = n
        /\ phase \in {"turn", "riichi"}
    <3>1. GoAround /\ opening # NoTile
      BY <1>4, <1>6 DEF OpeningInv
    <3>2. opening \in Seq(Kinds) /\ n < 4
      BY <3>1 DEF GoAround
    <3>3. n \in Nat
      BY <3>2, LenProperties
    <3>4. phase \in {"turn", "riichi"} /\ Turn(actor) = n
      BY <1>1, <3>1 DEF GoAround
    <3> HIDE DEF n
    <3> QED BY <1>1, <3>1, <3>2, <3>3, <3>4
  <2>2. GoAround
    BY <1>4, <1>6 DEF OpeningInv
  <2>3. CASE opening # <<>> /\ opening[1] # k
    <3>1. opening' = NoTile
      BY <1>2, <2>3
    <3>2. four_wind_tile # k /\ four_wind_tile # NoTile
      BY <2>2, <2>3 DEF GoAround
    <3>3. ~wind.can /\ ~wind.abort
      BY <1>6, <3>2 DEF FourWind
    <3> QED BY <1>1, <1>3, <1>4, <3>1, <3>3, Disturbed
  <2>4. CASE opening = <<>> \/ opening[1] = k
    <3>1. opening' = Append(opening, k)
      <4> HIDE DEF n
      <4>1. n # 4 /\ opening # NoTile
        BY <2>1
      <4> QED BY <1>2, <1>6, <2>4, <4>1, Zenon
    <3>2. /\ opening' \in Seq(Kinds) /\ Len(opening') = n + 1 /\ opening' # <<>> /\ opening' # NoTile
          /\ opening'[1] = IF opening = <<>> THEN k ELSE opening[1]
      BY <2>1, <3>1, AppendProperties, NoTileIsNoOpening
    <3>3. opening'[1] = k
      BY <2>4, <3>2
    <3>4. /\ Turn(Shimocha(p)) = IF n = 3 THEN 0 ELSE n + 1
          /\ Shimocha(p) \in Seats
      BY <2>1, TurnType, ShimochaIsSeat
    <3>5. can_w_riichi[Shimocha(p)] <=> n # 3
      BY <2>1, <2>2, <3>4 DEF GoAround
    <3>6. four_wind_tile = IF opening = <<>> THEN NoTile ELSE k
      BY <2>2, <2>4 DEF GoAround
    <3>7. opening = <<>> <=> n = 0
      BY <2>1
    <3>8. wind.abort <=> n = 3
      <4>1. CASE n = 3
        <5>1. ~can_w_riichi[Shimocha(p)] /\ four_wind_tile = k
          BY <3>5, <3>6, <3>7, <4>1
        <5> QED BY <1>6, <4>1, <5>1 DEF FourWind
      <4>2. CASE n # 3
        <5>1. can_w_riichi[Shimocha(p)]
          BY <3>5, <4>2
        <5> QED BY <1>6, <4>2, <5>1 DEF FourWind
      <4> QED BY <4>1, <4>2
    <3>9. CASE n = 3
      BY <1>3, <3>2, <3>8, <3>9 DEF OpeningInv, FourWindsExact
    <3>10. CASE n # 3
      <4>1. wind.can = TRUE /\ wind.tile = k
        BY <1>6, <3>5, <3>6, <3>10 DEF FourWind
      <4>2. \A q \in Seats : can_w_riichi'[q] <=> Turn(q) >= n + 1
        <5>1. ASSUME NEW q \in Seats PROVE can_w_riichi'[q] <=> Turn(q) >= n + 1
          <6>1. can_w_riichi[q] <=> Turn(q) >= n
            BY <2>2 DEF GoAround
          <6>2. Turn(q) \in 0..3 /\ (q # p => Turn(q) # n)
            BY <2>1, TurnType
          <6>3. can_w_riichi'[q] <=> q # p /\ can_w_riichi[q]
            BY <1>1 DEF TypeInv, OpenOK
          <6> QED BY <2>1, <6>1, <6>2, <6>3
        <5> QED BY <5>1
      <4>3. phase' = "discarded" /\ outcome' = "none" /\ Turn(tsumo_actor') = n + 1
        BY <1>1, <1>3, <1>4, <3>4, <3>8, <3>10
      <4>4. k # NoTile
        BY Constants
      <4>5. GoAround'
        <5>1. four_wind_tile' = k /\ \A q \in Seats : pons'[q] = 0
          BY <1>1, <2>2, <4>1 DEF GoAround
        <5>2. Len(opening') = n + 1 /\ n + 1 < 4
          BY <2>1, <3>2, <3>10
        <5>3. \A q \in Seats : Turn(q)' = Turn(q)
          BY DEF Turn
        <5>4. Turn(tsumo_actor)' = Turn(tsumo_actor')
          BY DEF Turn
        <5> HIDE DEF n
        <5> QED BY <3>2, <3>3, <4>2, <4>3, <4>4, <5>1, <5>2, <5>3, <5>4 DEF GoAround
      <4> QED BY <1>1, <2>1, <3>2, <3>10, <4>1, <4>3, <4>5 DEF OpeningInv, FourWindsExact
    <3> QED BY <3>9, <3>10
  <2> QED BY <2>3, <2>4
<1> QED BY <1>5, <1>6

LEMMA NextOpeningInv == TypeInv /\ OpeningInv /\ [Next]_vars => OpeningInv'
<1> SUFFICES ASSUME TypeInv, OpeningInv, [Next]_vars PROVE OpeningInv'
  OBVIOUS
<1>1. CASE UNCHANGED vars
  <2>1. UNCHANGED <<phase, actor, tsumo_actor, pons, can_w_riichi, can_four_wind,
                    four_wind_tile, opening, outcome>>
    BY <1>1 DEF vars, turnVars, meldVars, openVars, endVars
  <2> QED BY <2>1 DEF OpeningInv, GoAround, FourWindsExact, Turn
<1>2. CASE Haipai
  <2>1. /\ phase = "start" /\ phase' = "turn" /\ actor' = Oya
        /\ UNCHANGED <<tsumo_actor, pons, openVars, outcome, can_w_riichi, four_wind_tile, opening>>
    BY <1>2 DEF Haipai, meldVars, openVars, endVars
  <2>2. Turn(Oya) = 0
    BY Constants DEF Turn
  <2>3. can_four_wind => GoAround'
    BY <2>1, <2>2 DEF OpeningInv, GoAround, Turn
  <2> QED BY <2>1, <2>3, GoesOn
<1>3. CASE Draw
  <2>1. /\ phase \in {"discarded", "kakan", "rinshan"} /\ phase' = "turn" /\ actor' = tsumo_actor
        /\ UNCHANGED <<tsumo_actor, pons, openVars, outcome, can_w_riichi, four_wind_tile, opening>>
    BY <1>3 DEF Draw, meldVars, openVars, endVars
  <2>2. can_four_wind => GoAround'
    BY <2>1 DEF OpeningInv, GoAround, Turn
  <2> QED BY <2>1, <2>2, GoesOn
<1>4. ASSUME NEW p \in Seats, Reach(p) PROVE OpeningInv'
  <2>1. /\ phase = "turn" /\ phase' = "riichi"
        /\ UNCHANGED <<actor, tsumo_actor, pons, openVars, outcome, can_w_riichi,
                       four_wind_tile, opening>>
    BY <1>4 DEF Reach, HasDrawn, meldVars, openVars, endVars
  <2>2. can_four_wind => GoAround'
    BY <2>1 DEF OpeningInv, GoAround, Turn
  <2> QED BY <2>1, <2>2, GoesOn
<1>5. ASSUME NEW p \in Seats, Kakan(p) PROVE OpeningInv'
  <2>1. /\ phase # "end" /\ phase' # "end" /\ pons[p] > 0 /\ UNCHANGED <<openVars, outcome>>
    BY <1>5 DEF Kakan, HasDrawn, endVars
  <2>2. ~can_four_wind
    BY <2>1 DEF OpeningInv, GoAround
  <2> QED BY <2>1, <2>2, GoesOn
<1>6. ASSUME NEW p \in Seats, Chi(p) \/ Pon(p) \/ Daiminkan(p) \/ Ankan(p) PROVE OpeningInv'
  BY <1>6, Disturbed DEF Chi, Pon, Daiminkan, Ankan, Disturb, MayCall, HasDrawn, endVars
<1>7. ASSUME NEW p \in Seats, NEW k \in Kinds, Dahai(p, k) PROVE OpeningInv'
  BY <1>7, DahaiOpeningInv
<1>8. ASSUME EndStep, outcome' # "four_wind" PROVE OpeningInv'
  BY <1>8, OtherEnd DEF EndStep, tableVars, openVars
<1>9. ASSUME NEW winners \in SUBSET Seats, Ron(winners) PROVE OpeningInv'
  BY <1>8, <1>9, EndSteps DEF Ron, End
<1>10. ASSUME NEW p \in Seats, Tsumo(p) PROVE OpeningInv'
  BY <1>8, <1>10, EndSteps DEF Tsumo, End
<1>11. ASSUME NEW tenpai \in SUBSET Seats, ExhaustiveRyukyoku(tenpai) PROVE OpeningInv'
  BY <1>8, <1>11, EndSteps DEF ExhaustiveRyukyoku, End
<1>12. ASSUME NEW p \in Seats, KyuushuKyuuhai(p) PROVE OpeningInv'
  BY <1>8, <1>12, AbortiveSteps, EndSteps DEF KyuushuKyuuhai, AbortiveRyukyoku, End
<1>13. CASE FourRiichi \/ FourKan
  BY <1>8, <1>13, AbortiveSteps, EndSteps DEF FourRiichi, FourKan, AbortiveRyukyoku, End
<1> QED BY <1>1, <1>2, <1>3, <1>4, <1>5, <1>6, <1>7, <1>9, <1>10, <1>11, <1>12, <1>13 DEF Next

(* check_four_wind, which looks at flags that several other places clear,    *)
(* aborts the kyoku exactly for four discards of one wind in the first       *)
(* go-around with no call between them.                                      *)
THEOREM FourWindsAreExact == Spec => []FourWindsExact
<1>1. OpeningInv => FourWindsExact
  BY DEF OpeningInv
<1> QED BY <1>1, InitOpeningInv, NextOpeningInv, TypeInvHolds, PTL DEF Spec

=============================================================================
