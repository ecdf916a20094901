-------------------------------- MODULE Stat --------------------------------
(***************************************************************************)
(* The statistics of a player over a game's log (stat.rs): a fold over the *)
(* events of the log, one counter per field, the flags of the kyoku reset  *)
(* when the next one starts.  A log is written here event by event, in the *)
(* order the arena writes it; a tile, a wall and a hand are left out, since*)
(* the fold does not read them.                                            *)
(***************************************************************************)
EXTENDS Integers, Sequences, FiniteSets, FiniteSetsExt, SequencesExt, TLC

CONSTANTS
  Movers,          \* the seats that discard, call and declare a riichi
  Winners,         \* the seats that may win on a discard
  Hands,           \* what a win is worth to a non-dealer
  MaxRounds, MaxTurns, MaxCallers   \* bounds of the log

Seats == 0 .. 3

-----------------------------------------------------------------------------
(* The fold *)

Counters == {
  "round", "oya", "fuuro", "fuuro_num", "fuuro_point", "fuuro_agari",
  "fuuro_agari_jun", "fuuro_agari_point", "fuuro_houjuu", "agari",
  "agari_as_oya", "agari_jun", "agari_point_oya", "agari_point_ko", "houjuu",
  "houjuu_jun", "houjuu_to_oya", "houjuu_point_to_oya", "houjuu_point_to_ko",
  "riichi", "riichi_as_oya", "riichi_jun", "riichi_agari", "riichi_agari_point",
  "riichi_agari_jun", "riichi_houjuu", "riichi_ryukyoku", "riichi_point",
  "chasing_riichi", "riichi_got_chased", "dama_agari", "dama_agari_jun",
  "dama_agari_point", "ryukyoku", "ryukyoku_point", "yakuman", "nagashi_mangan"}

(* What only the whole game tells. *)
Outcomes == {"game", "point", "rank_1", "rank_2", "rank_3", "rank_4", "tobi"}

Fields == Counters \cup Outcomes

Zero == [f \in Fields |-> 0]
Add(s, more) == [f \in DOMAIN more |-> s[f] + more[f]] @@ s
When(p, more) == IF p THEN more ELSE [f \in {} |-> 0]

NoScores == [p \in Seats |-> 0]
Plus(a, b) == [p \in Seats |-> a[p] + b[p]]

Begin == [stat |-> Add(Zero, [game |-> 1]), scores |-> NoScores, oya |-> 0, jun |-> 0,
          calls |-> 0, declared |-> FALSE, accepted |-> FALSE, others |-> FALSE]

Tally(c, more) == [c EXCEPT !.stat = Add(@, more)]

OnStartKyokuKeeps(c, e, me) ==       \* mutant: the calls of the last kyoku are kept
  Tally([c EXCEPT !.scores = e.scores, !.oya = e.oya, !.jun = 0,
                  !.declared = FALSE, !.accepted = FALSE, !.others = FALSE],
        [round |-> 1] @@ When(e.oya = me, [oya |-> 1]))
OnStartKyoku(c, e, me) ==
  Tally([c EXCEPT !.scores = e.scores, !.oya = e.oya, !.jun = 0, !.calls = 0,
                  !.declared = FALSE, !.accepted = FALSE, !.others = FALSE],
        [round |-> 1] @@ When(e.oya = me, [oya |-> 1]))

OnReach(c, e, me) ==
  IF e.actor = me
  THEN Tally([c EXCEPT !.declared = TRUE],
             [riichi |-> 1, riichi_jun |-> c.jun]
               @@ When(c.oya = me, [riichi_as_oya |-> 1])
               @@ When(c.others, [chasing_riichi |-> 1]))
  ELSE IF c.declared THEN Tally(c, [riichi_got_chased |-> 1])
  ELSE [c EXCEPT !.others = TRUE]

OnReachAccepted(c, e, me) ==
  [c EXCEPT !.scores[e.actor] = @ - 1000, !.accepted = @ \/ e.actor = me]

Yakuman(oya) == IF oya THEN 48000 ELSE 32000
Own(point, oya) == IF oya THEN [agari_as_oya |-> 1, agari_point_oya |-> point]
                   ELSE [agari_point_ko |-> point]
Win(c, e, me) ==
  LET point == e.deltas[me] - (IF c.accepted THEN 1000 ELSE 0)
  IN [agari |-> 1, agari_jun |-> c.jun] @@ Own(point, c.oya = me)
       @@ (CASE c.accepted -> [riichi_agari |-> 1, riichi_agari_jun |-> c.jun,
                               riichi_agari_point |-> point, riichi_point |-> point]
             [] ~c.accepted /\ c.calls > 0 ->
                              [fuuro_agari |-> 1, fuuro_agari_jun |-> c.jun,
                               fuuro_agari_point |-> point, fuuro_point |-> point]
             [] OTHER -> [dama_agari |-> 1, dama_agari_jun |-> c.jun,
                          dama_agari_point |-> point])
       @@ When(point >= Yakuman(c.oya = me), [yakuman |-> 1])
DealIn(c, e, me) ==
  LET point == e.deltas[me]
  IN [houjuu |-> 1, houjuu_jun |-> c.jun]
       @@ (IF c.oya = e.actor THEN [houjuu_to_oya |-> 1, houjuu_point_to_oya |-> point]
           ELSE [houjuu_point_to_ko |-> point])
       @@ (CASE c.declared -> [riichi_houjuu |-> 1, riichi_point |-> point]
             [] ~c.declared /\ c.calls > 0 -> [fuuro_houjuu |-> 1, fuuro_point |-> point]
             [] OTHER -> When(FALSE, <<>>))

OnHora(c, e, me) ==
  Tally([c EXCEPT !.scores = Plus(@, e.deltas)],
        CASE e.actor = me -> Win(c, e, me)
          [] e.actor # me /\ e.target = me -> DealIn(c, e, me)
          [] OTHER -> When(FALSE, <<>>))

OnRyukyoku(c, e, me) ==
  LET point == e.deltas[me]
  IN Tally([c EXCEPT !.scores = Plus(@, e.deltas)],
           [ryukyoku |-> 1, ryukyoku_point |-> point]
             @@ (CASE c.accepted -> [riichi_ryukyoku |-> 1, riichi_point |-> point - 1000]
                   [] ~c.accepted /\ c.calls > 0 -> [fuuro_point |-> point]
                   [] OTHER -> When(FALSE, <<>>))
             @@ When(point >= 8000, [nagashi_mangan |-> 1]))

OnEndKyoku(c) == Tally(c, When(c.calls > 0, [fuuro |-> 1, fuuro_num |-> c.calls]))

OnEvent(c, e, me) ==
  CASE e.type = "start_kyoku" -> OnStartKyoku(c, e, me)
    [] e.type = "dahai" /\ e.actor = me -> [c EXCEPT !.jun = @ + 1]
    [] e.type = "call" /\ e.actor = me -> [c EXCEPT !.calls = @ + 1]
    [] e.type = "reach" -> OnReach(c, e, me)
    [] e.type = "reach_accepted" -> OnReachAccepted(c, e, me)
    [] e.type = "hora" -> OnHora(c, e, me)
    [] e.type = "ryukyoku" -> OnRyukyoku(c, e, me)
    [] e.type = "end_kyoku" -> OnEndKyoku(c)
    [] OTHER -> c

(* Rankings::new sorts by the score, and keeps the order of the seats among
   equals. *)
Rank(scores, p) ==
  Cardinality({q \in Seats : \/ scores[q] > scores[p]
                             \/ scores[q] = scores[p] /\ q < p})

Total(scores) == scores[0] + scores[1] + scores[2] + scores[3]

(* Sticks nobody won go to the first. *)
Ended(scores, me) ==
  LET left == 100000 - Total(scores)
      final == scores[me] + (IF left > 0 /\ Rank(scores, me) = 0 THEN left ELSE 0)
  IN [point |-> final - 25000] @@ When(final < 0, [tobi |-> 1])
       @@ (CASE Rank(scores, me) = 0 -> [rank_1 |-> 1]
             [] Rank(scores, me) = 1 -> [rank_2 |-> 1]
             [] Rank(scores, me) = 2 -> [rank_3 |-> 1]
             [] Rank(scores, me) = 3 -> [rank_4 |-> 1])

from_game(log, me) ==
  LET after[i \in 0 .. Len(log)] ==
        IF i = 0 THEN Begin ELSE OnEvent(after[i - 1], log[i], me)
      c == after[Len(log)]
  IN Add(c.stat, Ended(c.scores, me))

(* The files of a directory: a player is summed over the seats it had. *)
from_dir(games, me) ==
  FoldLeft(Add, Zero, [i \in DOMAIN games |->
    FoldSet(LAMBDA p, s : Add(s, from_game(games[i].log, p)), Zero,
            {p \in Seats : games[i].names[p] = me})])

(* The rates and averages: what is divided by what. *)
Shares == {
  <<"rank_1", "game">>, <<"rank_2", "game">>, <<"rank_3", "game">>, <<"rank_4", "game">>,
  <<"tobi", "game">>, <<"agari", "round">>, <<"riichi", "round">>, <<"fuuro", "round">>,
  <<"ryukyoku", "round">>, <<"riichi_agari", "riichi">>, <<"chasing_riichi", "riichi">>,
  <<"agari_as_oya", "oya">>, <<"agari_as_oya", "agari">>, <<"houjuu_to_oya", "houjuu">>,
  <<"fuuro_agari", "fuuro">>, <<"yakuman", "round">>, <<"nagashi_mangan", "round">>}
(* A discard counts once for each player who wins on it. *)
PerWinner == {<<"houjuu", "round">>, <<"riichi_houjuu", "riichi">>, <<"fuuro_houjuu", "fuuro">>}

(* dataset/grp.rs: the final scores, read from the end of the log back to the
   last start_kyoku. *)
load_events(log) ==
  LET back[i \in 1 .. Len(log)] ==        \* final_scores once found, from event i on
        LET rest == IF i = Len(log) THEN [found |-> FALSE, scores |-> NoScores] ELSE back[i + 1]
        IN CASE rest.found -> rest
             [] ~rest.found /\ log[i].type \in {"hora", "ryukyoku"} ->
                  [rest EXCEPT !.scores = Plus(@, log[i].deltas)]
             [] ~rest.found /\ log[i].type = "reach_accepted" ->
                  [rest EXCEPT !.scores[log[i].actor] = @ - 1000]
             [] ~rest.found /\ log[i].type = "start_kyoku" ->
                  [found |-> TRUE, scores |-> Plus(rest.scores, log[i].scores)]
             [] OTHER -> rest
      scores == back[1].scores
      left == 100000 - Total(scores)
  IN [p \in Seats |-> scores[p] + (IF left > 0 /\ Rank(scores, p) = 0 THEN left ELSE 0)]

-----------------------------------------------------------------------------
(* The logs *)

VARIABLES log,       \* the events so far
          phase,     \* "between" kyoku, "turn", a "discard" is out, "over"
          bank,      \* the scores, without the sticks on the table
          sticks, oya, turns, rounds,
          called, riichi,   \* the seats with an open hand, with a riichi declared
          last, pending     \* who discarded, and whether to declare a riichi

vars == <<log, phase, bank, sticks, oya, turns, rounds, called, riichi, last, pending>>

Init ==
  /\ log = <<[type |-> "start_game"]>> /\ phase = "between"
  /\ bank = [p \in Seats |-> 25000] /\ sticks = 0
  /\ oya = 0 /\ turns = 0 /\ rounds = 0
  /\ called = {} /\ riichi = {} /\ last = 0 /\ pending = FALSE

StartKyoku(o) ==
  /\ phase = "between" /\ rounds < MaxRounds
  /\ log' = Append(log, [type |-> "start_kyoku", oya |-> o, scores |-> bank])
  /\ phase' = "turn" /\ oya' = o /\ rounds' = rounds + 1
  /\ called' = {} /\ riichi' = {} /\ pending' = FALSE
  /\ UNCHANGED <<bank, sticks, turns, last>>

(* A seat discards: after a draw, after a call, or to declare a riichi. *)
Turn(p, how) ==
  /\ phase = "turn" /\ turns < MaxTurns
  /\ how = "call" => p \notin riichi /\ Cardinality(called \cup {p}) <= MaxCallers
  /\ how = "reach" => p \notin riichi \cup called
  /\ log' = log \o (CASE how = "call" -> <<[type |-> "call", actor |-> p]>>
                      [] how = "reach" -> <<[type |-> "reach", actor |-> p]>>
                      [] how = "draw" -> <<>>)
                \o <<[type |-> "dahai", actor |-> p]>>
  /\ phase' = "discard" /\ last' = p /\ turns' = turns + 1
  /\ pending' = (how = "reach")
  /\ called' = called \cup (IF how = "call" THEN {p} ELSE {})
  /\ riichi' = riichi \cup (IF how = "reach" THEN {p} ELSE {})
  /\ UNCHANGED <<bank, sticks, oya, rounds>>

(* The discard passes, and with it the riichi is accepted. *)
Pass ==
  /\ phase = "discard"
  /\ phase' = "turn" /\ pending' = FALSE
  /\ IF pending THEN /\ log' = Append(log, [type |-> "reach_accepted", actor |-> last])
                     /\ bank' = [bank EXCEPT ![last] = @ - 1000] /\ sticks' = sticks + 1
     ELSE UNCHANGED <<log, bank, sticks>>
  /\ UNCHANGED <<oya, turns, rounds, called, riichi, last>>

End(events, deltas, kept) ==
  /\ log' = log \o events \o <<[type |-> "end_kyoku"]>>
  /\ bank' = deltas /\ sticks' = kept /\ phase' = "between" /\ pending' = FALSE
  /\ UNCHANGED <<oya, turns, rounds, called, riichi, last>>

Worth(p, hand) == IF p = oya THEN (hand * 3) \div 2 ELSE hand
RonOf(p, hand, extra) ==
  [q \in Seats |-> CASE q = p -> Worth(p, hand) + extra
                     [] q = last -> -Worth(p, hand)
                     [] OTHER -> 0]

(* One player, two or all three win on the discard; the one next to it takes the
   sticks. *)
Ron(W, hand) ==
  /\ phase = "discard" /\ W \subseteq Winners \ {last} /\ W # {}
  /\ LET order == SetToSortSeq(W, LAMBDA p, q : ((p - last) % 4) < ((q - last) % 4))
         deltas == [i \in DOMAIN order |->
                      RonOf(order[i], hand, IF i = 1 THEN sticks * 1000 ELSE 0)]
     IN End([i \in DOMAIN order |-> [type |-> "hora", actor |-> order[i],
                                     target |-> last, deltas |-> deltas[i]]],
            FoldLeft(Plus, bank, deltas), 0)

Tsumo(p, hand) ==
  /\ phase = "turn"
  /\ LET each == Worth(p, hand) \div 2
         deltas == [q \in Seats |-> IF q = p THEN 3 * each + sticks * 1000 ELSE -each]
     IN End(<<[type |-> "hora", actor |-> p, target |-> p, deltas |-> deltas]>>,
            Plus(bank, deltas), 0)

(* The wall is empty, or one player's discards are a nagashi mangan. *)
Ryukyoku(tenpai, nagashi) ==
  /\ phase = "turn" /\ riichi \subseteq tenpai /\ Cardinality(tenpai) <= 1
  /\ LET deltas == [q \in Seats |->
           IF nagashi THEN (IF q = 3 THEN 12000 ELSE -4000)
           ELSE IF tenpai = {} THEN 0
           ELSE IF q \in tenpai THEN 3000 ELSE -1000]
     IN End(<<[type |-> "ryukyoku", deltas |-> deltas]>>, Plus(bank, deltas), sticks)

EndGame ==
  /\ phase = "between" /\ rounds > 0
  /\ phase' = "over" /\ log' = Append(log, [type |-> "end_game"])
  /\ UNCHANGED <<bank, sticks, oya, turns, rounds, called, riichi, last, pending>>

Next ==
  \/ StartKyoku(rounds % 4)
  \/ \E p \in Movers, how \in {"draw", "call", "reach"} : Turn(p, how)
  \/ Pass
  \/ \E W \in SUBSET Winners, hand \in Hands : Ron(W, hand)
  \/ \E p \in Movers, hand \in Hands : Tsumo(p, hand)
  \/ \E tenpai \in SUBSET Movers, nagashi \in BOOLEAN : Ryukyoku(tenpai, nagashi)
  \/ EndGame

Spec == Init /\ [][Next]_vars

-----------------------------------------------------------------------------
(* Properties *)

Sum(P(_)) == P(0) + P(1) + P(2) + P(3)
Events(Test(_)) == Cardinality({i \in DOMAIN log : Test(log[i])})

(* The four players' statistics of one game fit together: the points won and
   lost cancel out although sticks are left on the table, each rank is taken
   once, and every win, deal-in, riichi and dealership of the log is counted
   for the player it belongs to and for nobody else, a deal-in once for each of
   the winners; the final scores that the dataset reads from the log's end are
   the same.  A rate is therefore a share, at most 1, except the rates of the
   deal-ins, which a discard that all three rivals win pushes up to 3.  A player
   who had two seats is counted twice. *)
SeatsAddUp ==
  phase = "over" =>
    LET of(p) == p :> from_game(log, p)
        S == of(0) @@ of(1) @@ of(2) @@ of(3)
        Of(f) == Sum(LAMBDA p : S[p][f])
    IN /\ Of("point") = 0 /\ \A f \in {"rank_1", "rank_2", "rank_3", "rank_4"} : Of(f) = 1
       /\ Of("oya") = rounds
       /\ \A p \in Seats :
            /\ S[p].agari = Events(LAMBDA e : e.type = "hora" /\ e.actor = p)
            /\ S[p].houjuu = Events(LAMBDA e : e.type = "hora" /\ e.target = p /\ e.actor # p)
            /\ S[p].riichi = Events(LAMBDA e : e.type = "reach" /\ e.actor = p)
       /\ Of("riichi_agari") + Of("riichi_houjuu") + Of("riichi_ryukyoku") <=
            Of("riichi") + Of("houjuu")
       /\ \A p \in Seats : S[p].point = bank[p] - 25000
            + (IF Rank(bank, p) = 0 THEN 1000 * sticks ELSE 0)
       /\ load_events(log) = [p \in Seats |-> S[p].point + 25000]
       /\ LET names == [p \in Seats |-> IF p \in {0, 2} THEN "a" ELSE "b"]
          IN from_dir(<<[log |-> log, names |-> names]>>, "a") = Add(S[0], S[2])
       /\ \A p \in Seats : /\ \A r \in Shares : S[p][r[1]] <= S[p][r[2]]
                          /\ \A r \in PerWinner : S[p][r[1]] <= 3 * S[p][r[2]]

(* Nothing of one kyoku leaks into the counters of another: the statistics of a
   game are the sums of those of its kyoku taken alone, for every player. *)
Starts == {i \in DOMAIN log : log[i].type = "start_kyoku"}
Kyoku(i) == SubSeq(log, i, CHOOSE j \in i .. Len(log) :
                             /\ log[j].type = "end_kyoku"
                             /\ \A k \in i .. j - 1 : log[k].type # "end_kyoku")
RoundsAddUp ==
  phase = "over" =>
    \A p \in Seats :
      LET whole == from_game(log, p)
          parts == FoldSet(LAMBDA i, s : Add(s, from_game(Kyoku(i), p)), Zero, Starts)
      IN \A f \in Counters : whole[f] = parts[f]
=============================================================================
