---------------------------- MODULE RunnerProofs ----------------------------
(***************************************************************************)
(* What the loop of a batch promises, for any number of games and players, *)
(* any forced discards, any first action and any bound on the polls.       *)
(***************************************************************************)
EXTENDS Runner, SequenceTheorems, SetInduction, TLAPS

(* The fields of a game that decide what is returned of it. *)
Told == {"ended", "collected", "error", "hora", "cans", "turn"}

(* While the player in turn may act, nobody else may. *)
OneInTurn(g) ==
  \A p, q \in Players : g.cans[p] # {} /\ g.cans[q] # {} /\ p = g.turn => q = p

(* A game is decided once, and not both won and lost by the target. *)
Consistent(g) ==
  /\ Told \subseteq DOMAIN g
  /\ g.collected => g.ended
  /\ ~g.ended => ~g.error /\ g.hora = {} /\ OneInTurn(g)
  /\ g.error => g.hora = {}
  /\ (\E h \in g.hora : h.actor = target) =>
       ~ \E h \in g.hora : h.target = target /\ h.actor # target

(* A game with a row to come or a player to scan has nothing to tell yet. *)
Pending(s) == ~game[s[1]].collected /\ game[s[1]].hora = {}

LoopInv ==
  /\ phase \in {"begin", "round", "collect"}
  /\ todo \subseteq Games \X Players /\ batch_map \in Seq(Games \X Players)
  /\ phase # "round" => todo = {} /\ batch_map = <<>>
  /\ pass = "prefix" => phase # "collect" /\ results = <<>>

GamesInv ==
  /\ DOMAIN game = Games
  /\ \A gi \in Games : Consistent(game[gi])
  /\ \A s \in todo : Pending(s)
  /\ \A k \in DOMAIN batch_map : Pending(batch_map[k])

Verdicts == {"error", "draw", "self_win", "self_deal_in", "other_tsumo", "sideways"}
ResultsInv == results \in Seq([game : Games, outcome : Verdicts]) /\ EachGameOnce

ReturnInv == LoopInv /\ GamesInv /\ ResultsInv

-----------------------------------------------------------------------------
(* What a step of the scan, an answer and a poll leave of a game. *)

SameTold(g, h) ==
  /\ Told \subseteq DOMAIN h
  /\ h.collected = g.collected /\ h.hora = g.hora /\ h.cans = g.cans /\ h.turn = g.turn
Untold(g, h) == SameTold(g, h) /\ h.ended = g.ended /\ h.error = g.error
GivenUp(g, h) == SameTold(g, h) /\ h.ended /\ h.error

LEMMA ScanKeeps ==
  ASSUME NEW g, Told \subseteq DOMAIN g, NEW p
  PROVE  Untold(g, ScanPlayer(g, p).g) \/ GivenUp(g, ScanPlayer(g, p).g)
<1> USE DEF SameTold, Untold, GivenUp, Told, Say, Skip, Ask
<1>1. Untold(g, g)
  OBVIOUS
<1>2. Untold(g, ScanPrefix(g, p).g)
  BY DEF ScanPrefix, ForcedDiscard
<1> DEFINE reached == [g EXCEPT !.prefix_completed = TRUE]
<1>3. Untold(g, reached)
  OBVIOUS
<1>4. Untold(reached, ScanTarget(reached).g) \/ GivenUp(reached, ScanTarget(reached).g)
  <2> HIDE DEF reached
  <2>1. Told \subseteq DOMAIN reached
    BY <1>3
  <2>2. Untold(reached, ScanFirst(reached).g) \/ GivenUp(reached, ScanFirst(reached).g)
    BY <2>1 DEF ScanFirst
  <2> QED BY <2>1, <2>2 DEF ScanTarget
<1> HIDE DEF reached
<1> QED BY <1>1, <1>2, <1>3, <1>4 DEF ScanPlayer, reached

LEMMA AnswerKeeps ==
  ASSUME NEW g, Told \subseteq DOMAIN g, NEW p, NEW a
  PROVE  Untold(g, Weigh(g, p)) /\ Untold(g, [g EXCEPT !.reactions[p] = a])
<1> USE DEF SameTold, Untold, Told
<1>1. Untold(g, [g EXCEPT !.likes[g.prefix_index] = @ + 1])
  OBVIOUS
<1> DEFINE weighed == [g EXCEPT !.likes[g.prefix_index] = @ + 1]
<1> HIDE DEF weighed
<1>2. Told \subseteq DOMAIN weighed
  BY <1>1 DEF weighed
<1>3. Untold(weighed, Say([weighed EXCEPT !.reach_declared = TRUE], p, "riichi").g)
  BY <1>2 DEF Say
<1>4. Untold(weighed, ForcedDiscard(weighed, p).g)
  BY <1>2 DEF ForcedDiscard, Say
<1>5. Untold(g, Weigh(g, p))
  BY <1>1, <1>3, <1>4 DEF Weigh, weighed
<1> QED BY <1>5

(* The table after a poll: somebody in turn is alone to act. *)
LEMMA OutcomesInTurn ==
  ASSUME NEW g, NEW rx, NEW b \in Outcomes(g, rx)
  PROVE  OneInTurn(b)
<1>1. ASSUME NEW p, NEW c \in ToMove(p) PROVE OneInTurn(c)
  BY <1>1 DEF ToMove, Only, OneInTurn
<1>2. ASSUME NEW p, NEW c \in AfterDiscard(p) PROVE OneInTurn(c)
  <2>1. CASE c \in ToMove(After(p))
    BY <1>1, <2>1
  <2>2. CASE \E o \in Offers(p) : c = [turn |-> p, cans |-> o]
    <3> PICK o \in Offers(p) : c = [turn |-> p, cans |-> o]
      BY <2>2
    <3>1. ASSUME p \in Players PROVE o[p] = {}
      <4>1. PICK own \in OwnCalls(p) :
              \/ o = Only(target, own)
              \/ \E q \in Players \ {p, target}, call \in RivalCalls(own) : o = Asked(own, q, call)
        BY DEF Offers
      <4>2. p = target => own = {}
        BY DEF OwnCalls
      <4> QED BY <3>1, <4>1, <4>2 DEF Only, Asked
    <3> QED BY <3>1 DEF OneInTurn
  <2> QED BY <1>2, <2>1, <2>2 DEF AfterDiscard
<1>3. ASSUME NEW p, b \in {[turn |-> p, cans |-> Only(p, {"discard"})]} PROVE OneInTurn(b)
  BY <1>3 DEF Only, OneInTurn
<1> QED BY <1>1, <1>2, <1>3 DEF Outcomes

(* A player wins with what he was offered, so the target does not win his own
   tile and lose a discard in one poll. *)
LEMMA HorasConsistent ==
  ASSUME NEW g, OneInTurn(g), NEW rx, ~Refuses(g, rx),
         \E h \in Horas(g, rx) : h.actor = target
  PROVE  ~ \E h \in Horas(g, rx) : h.target = target /\ h.actor # target
<1> SUFFICES ASSUME NEW h \in Horas(g, rx), h.target = target, h.actor # target
             PROVE  FALSE
  OBVIOUS
<1>1. ASSUME NEW w \in Horas(g, rx)
      PROVE  w.actor \in Players /\ w.target = g.turn /\ g.cans[w.actor] # {}
  <2>1. PICK p \in Players : rx[p] \in {"ron", "tsumo"} /\ w = [actor |-> p, target |-> g.turn]
    BY DEF Horas
  <2>2. rx[p] \notin {None, "pass"}
    BY <2>1, NoneAssumption DEF Actions, OnDraw, Calls
  <2> QED BY <2>1, <2>2 DEF Refuses
<1> QED BY <1>1 DEF OneInTurn

LEMMA PollKeeps ==
  ASSUME NEW g, Consistent(g), NEW h \in advance_game(g)
  PROVE  Consistent(h) /\ h.collected = g.collected
<1>1. CASE g.ended
  BY <1>1 DEF advance_game
<1>2. CASE ~g.ended
  <2> DEFINE after == Submitted(g)
             rx == g.reactions
             recovered == [after EXCEPT !.recovered = TRUE]
  <2>1. Untold(g, after)
    BY DEF Submitted, Untold, SameTold, Told, Consistent
  <2> HIDE DEF after
  <2>2. Untold(g, recovered)
    BY <2>1 DEF Untold, SameTold, Told
  <2> HIDE DEF recovered
  <2>3. ~g.error /\ g.hora = {} /\ ~g.collected /\ OneInTurn(g)
    BY <1>2 DEF Consistent
  <2> USE <2>1, <2>2, <2>3 DEF Untold, SameTold, Told, Consistent
  <2>4. CASE h = [recovered EXCEPT !.ended = TRUE]
    BY <2>4
  <2>5. CASE h = KeepsError(recovered)
    BY <2>5 DEF KeepsError
  <2>6. CASE ~Refuses(g, rx) /\ h = [after EXCEPT !.ended = TRUE, !.hora = Horas(g, rx)]
    BY <2>6, HorasConsistent
  <2>7. CASE \E b \in Outcomes(g, rx) :
               h = [after EXCEPT !.turn = b.turn, !.cans = b.cans, !.left = @ - 1]
    <3> PICK b \in Outcomes(g, rx) :
               h = [after EXCEPT !.turn = b.turn, !.cans = b.cans, !.left = @ - 1]
      BY <2>7
    <3>1. h.cans = b.cans /\ h.turn = b.turn
      OBVIOUS
    <3>2. OneInTurn(h)
      BY <3>1, OutcomesInTurn DEF OneInTurn
    <3> QED BY <3>2, <1>2
  <2> QED BY <1>2, <2>4, <2>5, <2>6, <2>7 DEF advance_game, Polled, after, recovered
<1> QED BY <1>1, <1>2

-----------------------------------------------------------------------------
(* The batch as it starts: nothing is collected and nothing is returned. *)
LEMMA InitReturns == Init => ReturnInv
<1> SUFFICES ASSUME Init PROVE ReturnInv
  OBVIOUS
<1>1. LoopInv
  BY DEF Init, LoopInv
<1>2. OneInTurn(Fresh)
  BY DEF OneInTurn, Fresh, NoCans
<1>3. Consistent(Fresh)
  BY <1>2 DEF Consistent, Told, Fresh
<1>4. GamesInv
  BY <1>3 DEF GamesInv, Init
<1>5. ResultsInv
  BY DEF ResultsInv, EachGameOnce, Init, Fresh
<1> QED BY <1>1, <1>4, <1>5 DEF ReturnInv

(* Every entry of the results is about a game of the batch. *)
LEMMA ResultsTyped ==
  ASSUME results \in Seq([game : Games, outcome : Verdicts])
  PROVE  \A n \in DOMAIN results : results[n].game \in Games /\ results[n].outcome \in Verdicts
<1> SUFFICES ASSUME NEW n \in DOMAIN results
             PROVE  results[n].game \in Games /\ results[n].outcome \in Verdicts
  OBVIOUS
<1>1. n \in 1..Len(results)
  OBVIOUS
<1>2. results[n] \in [game : Games, outcome : Verdicts]
  BY <1>1, ElementOfSeq
<1> QED BY <1>2

(* A step that returns nothing and leaves alone the games that were returned
   keeps what is promised of them. *)
LEMMA ResultsKept ==
  ASSUME ResultsInv, results' = results,
         \A gi \in Games : /\ game'[gi].collected = game[gi].collected
                           /\ game[gi].collected => game'[gi] = game[gi]
  PROVE  ResultsInv'
<1>1. \A n \in DOMAIN results : results[n].game \in Games
  BY ResultsTyped DEF ResultsInv
<1>2. \A n \in DOMAIN results : game'[results[n].game] = game[results[n].game]
  BY <1>1 DEF ResultsInv, EachGameOnce
<1> QED BY <1>1, <1>2 DEF ResultsInv, EachGameOnce

(* A step of one game that is still open to the scan or to the engine. *)
OnlyOpenMoves ==
  /\ DOMAIN game' = Games /\ \A gi \in Games : Consistent(game'[gi])
  /\ \A gi \in Games : /\ game'[gi].collected = game[gi].collected
                       /\ game'[gi].hora = game[gi].hora
                       /\ game[gi].collected => game'[gi] = game[gi]

LEMMA PendingStep ==
  ASSUME GamesInv, NEW gi \in Games, ~game[gi].collected, game[gi].hora = {}, NEW h,
         Untold(game[gi], h) \/ GivenUp(game[gi], h),
         game' = [game EXCEPT ![gi] = h]
  PROVE  OnlyOpenMoves
<1>1. Consistent(game[gi])
  BY DEF GamesInv
<1>2. h.collected = game[gi].collected /\ h.hora = game[gi].hora
  BY DEF Untold, GivenUp, SameTold
<1>3. Consistent(h)
  <2>1. CASE Untold(game[gi], h)
    <3>1. OneInTurn(game[gi]) => OneInTurn(h)
      BY <2>1 DEF Untold, SameTold, OneInTurn
    <3> QED BY <1>1, <2>1, <3>1 DEF Untold, SameTold, Consistent
  <2>2. CASE GivenUp(game[gi], h)
    BY <2>2 DEF GivenUp, SameTold, Consistent
  <2> QED BY <2>1, <2>2
<1> QED BY <1>2, <1>3 DEF GamesInv, OnlyOpenMoves

(* What is told of a game is what the target made of it. *)
LEMMA OutcomeTold ==
  ASSUME NEW g, Consistent(g)
  PROVE  /\ g.error <=> classify_round_outcome(g) = "error"
         /\ (\E h \in g.hora : h.actor = target) => classify_round_outcome(g) = "self_win"
         /\ (\E h \in g.hora : h.target = target /\ h.actor # target)
              => classify_round_outcome(g) = "self_deal_in"
         /\ classify_round_outcome(g) \in Verdicts
<1> QED BY DEF Consistent, classify_round_outcome, Verdicts

(* The scan, the engine's answers, the polls and the collection each keep
   every game that was returned as it was when it was returned. *)
LEMMA StepReturns == ReturnInv /\ [Next]_vars => ReturnInv'
<1> SUFFICES ASSUME ReturnInv, [Next]_vars PROVE ReturnInv'
  OBVIOUS
<1> USE DEF ReturnInv
<1>1. CASE Begin
  <2>1. ResultsInv'
    BY <1>1, ResultsKept DEF Begin
  <2>2. \A s \in todo' : s \in Games \X Players /\ ~game[s[1]].ended
    BY <1>1 DEF Begin
  <2>3. \A s \in todo' : Pending(s)'
    BY <1>1, <2>2 DEF Begin, Pending, GamesInv, Consistent
  <2>4. GamesInv'
    BY <1>1, <2>3 DEF Begin, GamesInv, Consistent, OneInTurn, LoopInv
  <2>5. LoopInv'
    BY <1>1, <2>2 DEF Begin, LoopInv
  <2> QED BY <2>1, <2>4, <2>5
<1>2. CASE Scan
  <2>1. PICK s \in todo :
          /\ game' = [game EXCEPT ![s[1]] = ScanPlayer(game[s[1]], s[2]).g]
          /\ batch_map' = IF ScanPlayer(game[s[1]], s[2]).row
                           THEN Append(batch_map, s) ELSE batch_map
          /\ todo' = todo \ {s}
    BY <1>2 DEF Scan
  <2>2. s \in Games \X Players /\ s[1] \in Games /\ Pending(s)
    BY <2>1 DEF LoopInv, GamesInv
  <2> DEFINE h == ScanPlayer(game[s[1]], s[2]).g
  <2>3. Untold(game[s[1]], h) \/ GivenUp(game[s[1]], h)
    BY <2>2, ScanKeeps DEF GamesInv, Consistent
  <2> HIDE DEF h
  <2>4. OnlyOpenMoves
    <3>1. game' = [game EXCEPT ![s[1]] = h]
      BY <2>1 DEF h
    <3> QED BY <2>2, <2>3, <3>1, PendingStep DEF Pending
  <2>5. ResultsInv'
    BY <1>2, <2>4, ResultsKept DEF Scan, OnlyOpenMoves
  <2>6. LoopInv'
    BY <1>2, <2>1, <2>2, AppendProperties DEF Scan, LoopInv
  <2>7. \A k \in DOMAIN batch_map' :
          \/ batch_map'[k] = s
          \/ \E j \in DOMAIN batch_map : batch_map'[k] = batch_map[j]
    BY <2>1, <2>2, AppendProperties DEF LoopInv
  <2>8. \A r \in Games \X Players : Pending(r) => Pending(r)'
    BY <2>4 DEF Pending, OnlyOpenMoves
  <2>9. \A k \in DOMAIN batch_map : batch_map[k] \in Games \X Players
    BY DEF LoopInv
  <2>10. GamesInv'
    BY <2>1, <2>2, <2>4, <2>7, <2>8, <2>9 DEF GamesInv, LoopInv, OnlyOpenMoves
  <2> QED BY <2>5, <2>6, <2>10
<1>3. CASE Answer
  <2> DEFINE s == Head(batch_map)
  <2>1. s \in Games \X Players /\ s[1] \in Games /\ Pending(s)
    BY <1>3 DEF Answer, LoopInv, GamesInv
  <2>2. PICK h : /\ Untold(game[s[1]], h)
                 /\ game' = [game EXCEPT ![s[1]] = h]
    <3>1. Told \subseteq DOMAIN game[s[1]]
      BY <2>1 DEF GamesInv, Consistent
    <3>2. CASE InPrefix(game[s[1]])
      <4> WITNESS Weigh(game[s[1]], s[2])
      <4> QED BY <1>3, <3>1, <3>2, AnswerKeeps DEF Answer, s
    <3>3. CASE ~InPrefix(game[s[1]])
      <4>1. PICK a : game' = [game EXCEPT ![s[1]].reactions[s[2]] = a]
        BY <1>3, <3>3 DEF Answer, s
      <4> DEFINE h == [game[s[1]] EXCEPT !.reactions[s[2]] = a]
      <4>2. game' = [game EXCEPT ![s[1]] = h]
        BY <4>1
      <4>3. Untold(game[s[1]], h)
        BY <3>1, AnswerKeeps
      <4> QED BY <4>2, <4>3
    <3> QED BY <3>2, <3>3
  <2> HIDE DEF s
  <2>3. OnlyOpenMoves
    BY <2>1, <2>2, PendingStep DEF Pending
  <2>4. ResultsInv'
    BY <1>3, <2>3, ResultsKept DEF Answer, OnlyOpenMoves
  <2>5. LoopInv'
    BY <1>3, HeadTailProperties DEF Answer, LoopInv
  <2>6. \A k \in DOMAIN batch_map' : \E j \in DOMAIN batch_map : batch_map'[k] = batch_map[j]
    <3>1. batch_map # <<>> /\ batch_map' = Tail(batch_map) /\ batch_map \in Seq(Games \X Players)
      BY <1>3 DEF Answer, LoopInv
    <3> SUFFICES ASSUME NEW k \in DOMAIN batch_map'
                 PROVE  \E j \in DOMAIN batch_map : batch_map'[k] = batch_map[j]
      OBVIOUS
    <3>2. k + 1 \in DOMAIN batch_map /\ batch_map'[k] = batch_map[k + 1]
      BY <3>1
    <3> QED BY <3>2
  <2>7. \A r \in Games \X Players : Pending(r) => Pending(r)'
    BY <2>3 DEF Pending, OnlyOpenMoves
  <2>8. \A k \in DOMAIN batch_map : batch_map[k] \in Games \X Players
    BY DEF LoopInv
  <2>9. GamesInv'
    BY <1>3, <2>3, <2>6, <2>7, <2>8 DEF GamesInv, Answer, LoopInv, OnlyOpenMoves
  <2> QED BY <2>4, <2>5, <2>9
<1>4. CASE Advance
  <2> DEFINE gi == Least(unpolled)
  <2>1. PICK h \in advance_game(game[gi]) : game' = [game EXCEPT ![gi] = h]
    BY <1>4 DEF Advance
  <2> HIDE DEF gi
  <2>2. \A m \in Games : Consistent(game'[m]) /\ game'[m].collected = game[m].collected
    BY <2>1, PollKeeps DEF GamesInv
  <2>3. \A m \in Games : game[m].collected => game'[m] = game[m]
    BY <2>1 DEF GamesInv, Consistent, advance_game
  <2>4. ResultsInv'
    BY <1>4, <2>2, <2>3, ResultsKept DEF Advance
  <2>5. LoopInv'
    BY <1>4 DEF Advance, LoopInv
  <2>6. GamesInv'
    BY <1>4, <2>1, <2>2 DEF GamesInv, Advance
  <2> QED BY <2>4, <2>5, <2>6
<1>5. CASE Collect
  <2>1. PICK gi \in Finished :
          /\ results' = Append(results, [game |-> gi,
                                          outcome |-> classify_round_outcome(game[gi])])
          /\ game' = [game EXCEPT ![gi].collected = TRUE]
    BY <1>5 DEF Collect
  <2> DEFINE last == [game |-> gi, outcome |-> classify_round_outcome(game[gi])]
  <2>2. gi \in Games /\ game[gi].ended /\ ~game[gi].collected /\ Consistent(game[gi])
    BY <2>1 DEF Finished, GamesInv
  <2>3. Told \subseteq DOMAIN game[gi]
    BY <2>2 DEF Consistent
  <2>4. game'[gi] = [game[gi] EXCEPT !.collected = TRUE]
    BY <2>1, <2>2 DEF GamesInv
  <2>5. /\ game'[gi].collected
        /\ Told \subseteq DOMAIN game'[gi]
        /\ game'[gi].ended = game[gi].ended /\ game'[gi].error = game[gi].error
        /\ game'[gi].hora = game[gi].hora
    BY <2>3, <2>4 DEF Told
  <2>6. Consistent(game'[gi])
    BY <2>2, <2>5 DEF Consistent
  <2>7. DOMAIN game' = Games /\ \A m \in Games \ {gi} : game'[m] = game[m]
    BY <2>1 DEF GamesInv
  <2>8. LoopInv'
    BY <1>5, <2>1 DEF Collect, LoopInv
  <2>9. GamesInv'
    <3>1. todo' = {} /\ batch_map' = <<>>
      BY <1>5 DEF Collect, LoopInv
    <3>2. \A m \in Games : Consistent(game'[m])
      BY <2>6, <2>7 DEF GamesInv
    <3> QED BY <2>7, <3>1, <3>2 DEF GamesInv
  <2>10. /\ game[gi].error <=> last.outcome = "error"
         /\ (\E h \in game[gi].hora : h.actor = target) => last.outcome = "self_win"
         /\ (\E h \in game[gi].hora : h.target = target /\ h.actor # target)
              => last.outcome = "self_deal_in"
         /\ last.outcome \in Verdicts
    BY <2>2, OutcomeTold
  <2> HIDE DEF last
  <2>11. last.game = gi /\ last \in [game : Games, outcome : Verdicts]
    BY <2>2, <2>10 DEF last
  <2>12. /\ results' \in Seq([game : Games, outcome : Verdicts])
         /\ DOMAIN results' = 1..(Len(results) + 1)
         /\ results'[Len(results) + 1] = last
         /\ \A n \in DOMAIN results : results'[n] = results[n]
    BY <2>1, <2>11, AppendProperties DEF ResultsInv, last
  <2>13. \A n \in DOMAIN results : results[n].game \in Games \ {gi}
    BY <2>2, ResultsTyped DEF ResultsInv, EachGameOnce
  <2>14. EachGameOnce'
    <3>1. \A m, n \in DOMAIN results' : results'[m].game = results'[n].game => m = n
      BY <2>11, <2>12, <2>13 DEF ResultsInv, EachGameOnce
    <3>2. \A m \in Games : game'[m].collected <=> \E n \in DOMAIN results' : results'[n].game = m
      BY <2>5, <2>7, <2>11, <2>12, <2>13 DEF ResultsInv, EachGameOnce
    <3>3. ASSUME NEW n \in DOMAIN results'
          PROVE  LET g == game'[results'[n].game]
                 IN  /\ g.ended
                     /\ g.error <=> results'[n].outcome = "error"
                     /\ (\E h \in g.hora : h.actor = target)
                          => results'[n].outcome = "self_win"
                     /\ (\E h \in g.hora : h.target = target /\ h.actor # target)
                          => results'[n].outcome = "self_deal_in"
      <4>1. CASE n = Len(results) + 1
        BY <2>2, <2>5, <2>10, <2>11, <2>12, <4>1
      <4>2. CASE n \in DOMAIN results
        BY <2>7, <2>12, <2>13, <4>2 DEF ResultsInv, EachGameOnce
      <4> QED BY <2>12, <4>1, <4>2 DEF ResultsInv
    <3> QED BY <3>1, <3>2, <3>3 DEF EachGameOnce
  <2> QED BY <2>8, <2>9, <2>12, <2>14 DEF ResultsInv
<1>6. CASE EndRound
  <2>1. ResultsInv'
    BY <1>6, ResultsKept DEF EndRound
  <2>2. LoopInv'
    BY <1>6 DEF EndRound, LoopInv
  <2>3. GamesInv'
    BY <1>6 DEF EndRound, GamesInv, LoopInv
  <2> QED BY <2>1, <2>2, <2>3
<1>7. CASE Rebuild
  <2>1. results = <<>> /\ \A gi \in Games : ~game[gi].collected
    BY <1>7 DEF Rebuild, LoopInv, ResultsInv, EachGameOnce
  <2>2. ~Fresh.collected /\ Consistent(Fresh)
    BY DEF Fresh, Consistent, OneInTurn, NoCans, Told
  <2>3. ResultsInv'
    BY <1>7, <2>1, <2>2 DEF Rebuild, ResultsInv, EachGameOnce
  <2>4. LoopInv'
    BY <1>7 DEF Rebuild, LoopInv
  <2>5. GamesInv'
    BY <1>7, <2>2 DEF Rebuild, GamesInv, LoopInv
  <2> QED BY <2>3, <2>4, <2>5
<1>8. CASE UNCHANGED vars
  <2>1. ResultsInv'
    BY <1>8, ResultsKept DEF vars
  <2>2. LoopInv'
    BY <1>8 DEF vars, LoopInv
  <2>3. GamesInv'
    BY <1>8 DEF vars, GamesInv, Pending
  <2> QED BY <2>1, <2>2, <2>3
<1> QED BY <1>1, <1>2, <1>3, <1>4, <1>5, <1>6, <1>7, <1>8 DEF Next

(* Every game of a batch is returned exactly once, whatever round it ends in,
   and with the outcome that the target made of it. *)
THEOREM GamesReturnedOnce == Spec => []EachGameOnce
<1>1. ReturnInv => EachGameOnce
  BY DEF ReturnInv, ResultsInv
<1> QED BY <1>1, InitReturns, StepReturns, PTL DEF Spec

-----------------------------------------------------------------------------
(***************************************************************************)
(* The likelihood of a deal.  The steps and the pass are parameters, so    *)
(* that the definitions speak of one game and not of the state.            *)
(***************************************************************************)
Steps == [actor : Players, is_riichi : BOOLEAN, accumulate_likelihood : BOOLEAN]
Weighed == {"likes", "prefix_index", "prefix_completed", "reach_declared", "cans"}

(* The forced discards before the index are weighed, if they are to be. *)
LikesOf(g, steps) ==
  /\ Weighed \subseteq DOMAIN g
  /\ g.prefix_index \in Nat \ {0}
  /\ DOMAIN g.likes = DOMAIN steps
  /\ \A i \in DOMAIN steps :
       g.likes[i] = IF i < g.prefix_index /\ steps[i].accumulate_likelihood THEN 1 ELSE 0
  /\ g.prefix_completed => g.prefix_index > Len(steps)

(* A row of a game in its prefix is for the discard that is due, and the
   riichi before it is declared. *)
RowOf(g, p, steps, in) ==
  g.prefix_index <= Len(steps) =>
    /\ steps[g.prefix_index].actor = p /\ steps[g.prefix_index].accumulate_likelihood
    /\ in = "main" /\ steps[g.prefix_index].is_riichi /\ ~g.reach_declared
         => "riichi" \notin g.cans[p]

RowsInv ==
  \A k \in DOMAIN batch_map :
    /\ batch_map[k] \notin todo
    /\ \A j \in DOMAIN batch_map : batch_map[j] = batch_map[k] => j = k
    /\ RowOf(game[batch_map[k][1]], batch_map[k][2], prefix_steps, pass)

LikesInv ==
  /\ prefix_steps \in Seq(Steps)
  /\ DOMAIN game = Games /\ \A gi \in Games : LikesOf(game[gi], prefix_steps)
  /\ RowsInv

WeighInv == LoopInv /\ LikesInv

(* The scan forces a discard that is not weighed, asks for one that is, and
   leaves the rows of the game's other players as they are. *)
LEMMA ScanWeighs ==
  ASSUME NEW g, prefix_steps \in Seq(Steps), LikesOf(g, prefix_steps), NEW p,
         NEW s, s = ScanPlayer(g, p)
  PROVE  /\ LikesOf(s.g, prefix_steps)
         /\ s.row => RowOf(s.g, p, prefix_steps, pass)
         /\ \A q : q # p /\ RowOf(g, q, prefix_steps, pass)
                  => RowOf(s.g, q, prefix_steps, pass)
<1> USE DEF Say, Skip, Ask, InPrefix
<1>1. CASE s = Skip(g)
  BY <1>1
<1>2. CASE ~g.prefix_completed /\ InPrefix(g) /\ g.cans[p] # {}
  <2> DEFINE step == prefix_steps[g.prefix_index]
  <2>1. s = ScanPrefix(g, p)
    BY <1>2 DEF ScanPlayer
  <2>2. CASE p # step.actor \/ "discard" \notin g.cans[p]
    BY <1>1, <2>1, <2>2 DEF ScanPrefix
  <2>3. CASE p = step.actor /\ "discard" \in g.cans[p] /\ Declares(g, p)
    <3> DEFINE f == [g EXCEPT !.reach_declared = TRUE]
    <3>1. s = Say(f, p, "riichi")
      BY <2>1, <2>3 DEF ScanPrefix
    <3>2. /\ f.prefix_index = g.prefix_index /\ f.likes = g.likes
          /\ f.prefix_completed = g.prefix_completed /\ DOMAIN f = DOMAIN g
      BY DEF LikesOf, Weighed
    <3> HIDE DEF f
    <3>3. /\ s.g.prefix_index = g.prefix_index /\ s.g.likes = g.likes /\ ~s.row
          /\ s.g.prefix_completed = g.prefix_completed /\ Weighed \subseteq DOMAIN s.g
      BY <3>1, <3>2 DEF LikesOf, Weighed
    <3>4. LikesOf(s.g, prefix_steps)
      BY <3>3 DEF LikesOf
    <3> QED BY <1>2, <2>3, <3>3, <3>4 DEF RowOf
  <2>4. CASE p = step.actor /\ "discard" \in g.cans[p] /\ ~Declares(g, p)
             /\ step.accumulate_likelihood
    <3>1. s = Ask(g)
      BY <2>1, <2>4 DEF ScanPrefix
    <3> QED BY <3>1, <2>4 DEF RowOf, Declares
  <2>5. CASE p = step.actor /\ "discard" \in g.cans[p] /\ ~Declares(g, p)
             /\ ~step.accumulate_likelihood
    <3>1. s = ForcedDiscard(g, p)
      BY <2>1, <2>5 DEF ScanPrefix
    <3> DEFINE f == [g EXCEPT !.prefix_index = @ + 1, !.reach_declared = FALSE]
    <3>2. /\ f.prefix_index = g.prefix_index + 1 /\ f.likes = g.likes
          /\ f.prefix_completed = g.prefix_completed /\ DOMAIN f = DOMAIN g
      BY DEF LikesOf, Weighed
    <3>3. s = Say(f, p, "discard")
      BY <3>1 DEF ForcedDiscard
    <3> HIDE DEF f
    <3>4. /\ s.g.prefix_index = g.prefix_index + 1 /\ s.g.likes = g.likes /\ ~s.row
          /\ s.g.prefix_completed = g.prefix_completed /\ Weighed \subseteq DOMAIN s.g
      BY <3>2, <3>3 DEF LikesOf, Weighed
    <3>5. LikesOf(s.g, prefix_steps)
      BY <1>2, <2>5, <3>4 DEF LikesOf
    <3> QED BY <1>2, <2>5, <3>4, <3>5 DEF RowOf
  <2> QED BY <2>2, <2>3, <2>4, <2>5
<1>3. CASE g.prefix_completed \/ ~InPrefix(g)
  <2>1. ~InPrefix(g)
    BY <1>3 DEF LikesOf
  <2> DEFINE reached == [g EXCEPT !.prefix_completed = TRUE]
  <2>2. LikesOf(reached, prefix_steps) /\ ~InPrefix(reached)
    BY <2>1 DEF LikesOf, Weighed
  <2> HIDE DEF reached
  <2>3. /\ LikesOf(ScanFirst(reached).g, prefix_steps)
        /\ ~InPrefix(ScanFirst(reached).g)
    BY <2>2 DEF ScanFirst, LikesOf, Weighed
  <2>4. /\ LikesOf(ScanTarget(reached).g, prefix_steps)
        /\ ~InPrefix(ScanTarget(reached).g)
    BY <2>2, <2>3 DEF ScanTarget, LikesOf, Weighed
  <2>5. s \in {Skip(g), Skip(reached), ScanTarget(reached), Ask(reached)}
    BY <2>1 DEF ScanPlayer, reached
  <2>6. LikesOf(s.g, prefix_steps) /\ ~InPrefix(s.g)
    BY <2>1, <2>2, <2>4, <2>5
  <2>7. s.g.prefix_index \in Nat /\ Len(prefix_steps) \in Nat
    BY <2>6 DEF LikesOf
  <2> QED BY <2>6, <2>7 DEF RowOf
<1>4. CASE g.cans[p] = {}
  BY <1>1, <1>4 DEF ScanPlayer
<1> QED BY <1>2, <1>3, <1>4

(* The engine's answer weighs the discard that is due, once. *)
LEMMA AnswerWeighs ==
  ASSUME NEW g, prefix_steps \in Seq(Steps), LikesOf(g, prefix_steps), InPrefix(g), NEW p,
         RowOf(g, p, prefix_steps, pass)
  PROVE  LikesOf(Weigh(g, p), prefix_steps)
<1>1. ~Declares(g, p) /\ prefix_steps[g.prefix_index].accumulate_likelihood
  BY DEF RowOf, Declares, InPrefix
<1> DEFINE weighed == [g EXCEPT !.likes[g.prefix_index] = @ + 1]
<1>2. /\ weighed.likes = [g.likes EXCEPT ![g.prefix_index] = @ + 1]
      /\ DOMAIN weighed = DOMAIN g
      /\ weighed.prefix_index = g.prefix_index
      /\ weighed.prefix_completed = g.prefix_completed
  BY DEF LikesOf, Weighed
<1> HIDE DEF weighed
<1> DEFINE h == ForcedDiscard(weighed, p).g
<1>3. /\ h.likes = weighed.likes /\ h.prefix_index = g.prefix_index + 1
      /\ h.prefix_completed = g.prefix_completed /\ DOMAIN h = DOMAIN g
  BY <1>2 DEF ForcedDiscard, Say, LikesOf, Weighed
<1>4. h = Weigh(g, p)
  BY <1>1 DEF Weigh, weighed
<1> HIDE DEF h
<1>5. g.prefix_index \in DOMAIN prefix_steps
  BY DEF InPrefix, LikesOf
<1>6. \A i \in DOMAIN prefix_steps :
        h.likes[i] = IF i < h.prefix_index /\ prefix_steps[i].accumulate_likelihood
                     THEN 1 ELSE 0
  BY <1>1, <1>2, <1>3, <1>5 DEF LikesOf
<1>7. LikesOf(h, prefix_steps)
  BY <1>2, <1>3, <1>6 DEF LikesOf, InPrefix
<1> QED BY <1>4, <1>7

(* A poll weighs nothing. *)
LEMMA PollWeighs ==
  ASSUME NEW g, LikesOf(g, prefix_steps), NEW h \in advance_game(g)
  PROVE  LikesOf(h, prefix_steps)
<1> DEFINE after == Submitted(g)
           recovered == [after EXCEPT !.recovered = TRUE]
<1>1. LikesOf(after, prefix_steps)
  BY DEF Submitted, LikesOf, Weighed
<1> HIDE DEF after
<1>2. LikesOf(recovered, prefix_steps)
  BY <1>1 DEF LikesOf, Weighed
<1> HIDE DEF recovered
<1>3. LikesOf(KeepsError(recovered), prefix_steps)
  BY <1>2 DEF KeepsError, LikesOf, Weighed
<1>4. LikesOf([recovered EXCEPT !.ended = TRUE], prefix_steps)
  BY <1>2 DEF LikesOf, Weighed
<1>5. LikesOf([after EXCEPT !.ended = TRUE, !.hora = Horas(g, g.reactions)], prefix_steps)
  BY <1>1 DEF LikesOf, Weighed
<1>6. ASSUME NEW b
      PROVE  LikesOf([after EXCEPT !.turn = b.turn, !.cans = b.cans, !.left = @ - 1],
                     prefix_steps)
  BY <1>1 DEF LikesOf, Weighed
<1> QED BY <1>3, <1>4, <1>5, <1>6 DEF advance_game, Polled, after, recovered

(* Before the first round nothing is weighed. *)
LEMMA FreshWeighs ==
  ASSUME prefix_steps \in Seq(Steps)
  PROVE  LikesOf(Fresh, prefix_steps)
<1> DEFINE none == [i \in DOMAIN prefix_steps |-> 0]
<1>1. /\ Fresh.prefix_index = 1 /\ Fresh.likes = none /\ Weighed \subseteq DOMAIN Fresh
      /\ Fresh.prefix_completed <=> prefix_steps = <<>>
  BY DEF Fresh, Weighed
<1>2. \A i \in DOMAIN prefix_steps : ~(i < 1)
  OBVIOUS
<1> QED BY <1>1, <1>2 DEF LikesOf

LEMMA InitWeighs == Init => WeighInv
<1> SUFFICES ASSUME Init PROVE WeighInv
  OBVIOUS
<1>1. LoopInv
  BY DEF Init, LoopInv
<1>2. prefix_steps \in Seq(Steps)
  BY ForcedAssumption DEF Init, Steps
<1> QED BY <1>1, <1>2, FreshWeighs DEF Init, WeighInv, LikesInv, RowsInv

(* Each forced discard is weighed by the row that was made for it, and there
   is one such row. *)
LEMMA StepWeighs == WeighInv /\ ReturnInv' /\ [Next]_vars => WeighInv'
<1> SUFFICES ASSUME WeighInv, ReturnInv', [Next]_vars PROVE LikesInv'
  BY DEF WeighInv, ReturnInv
<1> USE DEF WeighInv
<1>0. prefix_steps' = prefix_steps /\ prefix_steps \in Seq(Steps) /\ DOMAIN game = Games
  BY DEF LikesInv, Next, Begin, Scan, Answer, Advance, Collect, EndRound, Rebuild, vars, request
<1>1. ASSUME pass' = pass, batch_map' = <<>>, DOMAIN game' = Games,
             \A gi \in Games : LikesOf(game'[gi], prefix_steps)
      PROVE  LikesInv'
  BY <1>0, <1>1 DEF LikesInv, RowsInv
<1>2. CASE Begin
  <2>1. batch_map' = <<>> /\ game' = game /\ pass' = pass
    BY <1>2 DEF Begin, LoopInv
  <2> QED BY <1>0, <1>1, <2>1 DEF LikesInv
<1>3. CASE Scan
  <2>1. PICK s \in todo :
          /\ game' = [game EXCEPT ![s[1]] = ScanPlayer(game[s[1]], s[2]).g]
          /\ batch_map' = IF ScanPlayer(game[s[1]], s[2]).row
                           THEN Append(batch_map, s) ELSE batch_map
          /\ todo' = todo \ {s}
    BY <1>3 DEF Scan
  <2>2. pass' = pass /\ s \in Games \X Players /\ s[1] \in Games
    BY <1>3, <2>1 DEF Scan, LoopInv
  <2> DEFINE scanned == ScanPlayer(game[s[1]], s[2])
  <2>3. /\ LikesOf(scanned.g, prefix_steps)
        /\ scanned.row => RowOf(scanned.g, s[2], prefix_steps, pass)
        /\ \A q : q # s[2] /\ RowOf(game[s[1]], q, prefix_steps, pass)
                 => RowOf(scanned.g, q, prefix_steps, pass)
    BY <1>0, <2>2, ScanWeighs DEF LikesInv
  <2>4. /\ game' = [game EXCEPT ![s[1]] = scanned.g]
        /\ batch_map' = IF scanned.row THEN Append(batch_map, s) ELSE batch_map
    BY <2>1
  <2> HIDE DEF scanned
  <2>5. \A gi \in Games : LikesOf(game'[gi], prefix_steps)
    BY <2>2, <2>3, <2>4 DEF LikesInv
  <2>6. batch_map \in Seq(Games \X Players) /\ \A k \in DOMAIN batch_map : batch_map[k] # s
    BY <2>1 DEF LoopInv, LikesInv, RowsInv
  <2>7. ASSUME NEW r \in Games \X Players, r # s,
               RowOf(game[r[1]], r[2], prefix_steps, pass)
        PROVE  RowOf(game'[r[1]], r[2], prefix_steps, pass)
    <3>1. CASE r[1] # s[1]
      <4>1. game'[r[1]] = game[r[1]]
        BY <1>0, <2>4, <3>1
      <4> QED BY <2>7, <4>1
    <3>2. CASE r[1] = s[1]
      <4>1. r[2] # s[2]
        BY <2>2, <2>7, <3>2
      <4>2. game'[r[1]] = scanned.g
        BY <1>0, <2>2, <2>4, <3>2
      <4> QED BY <2>3, <2>7, <3>2, <4>1, <4>2
    <3> QED BY <3>1, <3>2
  <2>8. \A k \in DOMAIN batch_map :
          batch_map[k] \in Games \X Players /\ batch_map[k] \notin todo
          /\ RowOf(game'[batch_map[k][1]], batch_map[k][2], prefix_steps, pass)
    <3>1. \A k \in DOMAIN batch_map : batch_map[k] \in Games \X Players
      BY <2>6
    <3> QED BY <2>6, <2>7, <3>1 DEF LikesInv, RowsInv
  <2>9. CASE scanned.row
    <3>1. /\ DOMAIN batch_map' = 1..(Len(batch_map) + 1)
          /\ DOMAIN batch_map = 1..Len(batch_map) /\ Len(batch_map) \in Nat
          /\ batch_map'[Len(batch_map) + 1] = s
          /\ \A k \in DOMAIN batch_map : batch_map'[k] = batch_map[k]
      BY <2>2, <2>4, <2>6, <2>9, AppendProperties
    <3>2. RowOf(game'[s[1]], s[2], prefix_steps, pass)
      BY <1>0, <2>2, <2>3, <2>4, <2>9
    <3>3. \A k \in DOMAIN batch_map' :
            /\ batch_map'[k] \notin todo'
            /\ RowOf(game'[batch_map'[k][1]], batch_map'[k][2], prefix_steps, pass)
      BY <2>1, <2>8, <3>1, <3>2
    <3>4. \A k, j \in DOMAIN batch_map' : batch_map'[j] = batch_map'[k] => j = k
      BY <2>6, <3>1 DEF LikesInv, RowsInv
    <3>5. RowsInv'
      BY <1>0, <2>2, <3>3, <3>4 DEF RowsInv
    <3> QED BY <1>0, <2>4, <2>5, <3>5 DEF LikesInv
  <2>10. CASE ~scanned.row
    <3>1. batch_map' = batch_map
      BY <2>4, <2>10
    <3>2. RowsInv'
      BY <1>0, <2>1, <2>2, <2>8, <3>1 DEF LikesInv, RowsInv
    <3> QED BY <1>0, <2>4, <2>5, <3>2 DEF LikesInv
  <2> QED BY <2>9, <2>10
<1>4. CASE Answer
  <2> DEFINE s == Head(batch_map)
  <2>1. /\ batch_map # <<>> /\ batch_map \in Seq(Games \X Players)
        /\ batch_map' = Tail(batch_map) /\ pass' = pass /\ todo' = todo
    BY <1>4 DEF Answer, LoopInv
  <2>2. /\ s = batch_map[1] /\ 1 \in DOMAIN batch_map
        /\ s \in Games \X Players /\ s[1] \in Games
    BY <2>1
  <2>3. \A k \in DOMAIN batch_map' :
          /\ k + 1 \in DOMAIN batch_map /\ batch_map'[k] = batch_map[k + 1] /\ k \in Nat \ {0}
    BY <2>1
  <2>4. \A k \in DOMAIN batch_map' :
          /\ batch_map'[k] \in Games \X Players /\ batch_map'[k] # s
          /\ batch_map'[k] \notin todo'
          /\ RowOf(game[batch_map'[k][1]], batch_map'[k][2], prefix_steps, pass)
    <3>1. \A k \in DOMAIN batch_map : batch_map[k] \in Games \X Players
      BY <2>1
    <3> QED BY <2>1, <2>2, <2>3, <3>1 DEF LikesInv, RowsInv
  <2>5. \A k, j \in DOMAIN batch_map' : batch_map'[j] = batch_map'[k] => j = k
    <3> SUFFICES ASSUME NEW k \in DOMAIN batch_map', NEW j \in DOMAIN batch_map',
                        batch_map'[j] = batch_map'[k]
                 PROVE  j = k
      OBVIOUS
    <3>1. j + 1 = k + 1
      BY <2>3 DEF LikesInv, RowsInv
    <3> QED BY <2>3, <3>1
  <2>6. LikesOf(game[s[1]], prefix_steps) /\ RowOf(game[s[1]], s[2], prefix_steps, pass)
    BY <2>2 DEF LikesInv, RowsInv
  <2>7. CASE InPrefix(game[s[1]])
    <3>1. game' = [game EXCEPT ![s[1]] = Weigh(game[s[1]], s[2])]
      BY <1>4, <2>7 DEF Answer
    <3>2. LikesOf(Weigh(game[s[1]], s[2]), prefix_steps)
      BY <1>0, <2>6, <2>7, AnswerWeighs
    <3> HIDE DEF s
    <3>3. \A gi \in Games : LikesOf(game'[gi], prefix_steps)
      BY <2>2, <3>1, <3>2 DEF LikesInv
    <3>4. \A k \in DOMAIN batch_map' : batch_map'[k][1] # s[1]
      <4> SUFFICES ASSUME NEW k \in DOMAIN batch_map', batch_map'[k][1] = s[1]
                   PROVE  FALSE
        OBVIOUS
      <4>1. batch_map'[k][2] = s[2]
        BY <2>4, <2>6, <2>7 DEF RowOf, InPrefix
      <4> QED BY <2>2, <2>4, <4>1
    <3>5. \A k \in DOMAIN batch_map' : game'[batch_map'[k][1]] = game[batch_map'[k][1]]
      BY <1>0, <2>4, <3>1, <3>4
    <3>6. RowsInv'
      BY <1>0, <2>1, <2>4, <2>5, <3>5 DEF RowsInv
    <3> QED BY <1>0, <3>1, <3>3, <3>6 DEF LikesInv
  <2>8. CASE ~InPrefix(game[s[1]])
    <3>1. PICK a : game' = [game EXCEPT ![s[1]].reactions[s[2]] = a]
      BY <1>4, <2>8 DEF Answer
    <3> HIDE DEF s
    <3> DEFINE h == [game[s[1]] EXCEPT !.reactions[s[2]] = a]
    <3>2. game' = [game EXCEPT ![s[1]] = h]
      BY <3>1
    <3>3. /\ h.prefix_index = game[s[1]].prefix_index /\ h.likes = game[s[1]].likes
          /\ h.prefix_completed = game[s[1]].prefix_completed
          /\ DOMAIN h = DOMAIN game[s[1]]
      BY <2>6 DEF LikesOf, Weighed
    <3> HIDE DEF h
    <3>4. LikesOf(h, prefix_steps) /\ \A q : RowOf(h, q, prefix_steps, pass)
      BY <2>6, <2>8, <3>3 DEF LikesOf, RowOf, InPrefix
    <3>5. \A gi \in Games : LikesOf(game'[gi], prefix_steps)
      BY <2>2, <3>2, <3>4 DEF LikesInv
    <3>6. \A gi \in Games : game'[gi] = game[gi] \/ game'[gi] = h
      BY <1>0, <3>2
    <3>7. RowsInv'
      BY <1>0, <2>1, <2>4, <2>5, <3>4, <3>6 DEF RowsInv
    <3> QED BY <1>0, <3>2, <3>5, <3>7 DEF LikesInv
  <2> QED BY <2>7, <2>8
<1>5. CASE Advance
  <2> DEFINE gi == Least(unpolled)
  <2>1. PICK h \in advance_game(game[gi]) : game' = [game EXCEPT ![gi] = h]
    BY <1>5 DEF Advance
  <2>2. batch_map' = <<>> /\ pass' = pass
    BY <1>5 DEF Advance
  <2> HIDE DEF gi
  <2>3. \A m \in Games : LikesOf(game'[m], prefix_steps)
    BY <2>1, PollWeighs DEF LikesInv
  <2> QED BY <1>0, <1>1, <2>1, <2>2, <2>3
<1>6. CASE Collect
  <2>1. PICK gi : game' = [game EXCEPT ![gi].collected = TRUE]
    BY <1>6 DEF Collect
  <2>2. batch_map' = <<>> /\ pass' = pass
    BY <1>6 DEF Collect, LoopInv
  <2> DEFINE h == [game[gi] EXCEPT !.collected = TRUE]
  <2>3. game' = [game EXCEPT ![gi] = h]
    BY <2>1
  <2>4. LikesOf(game[gi], prefix_steps) => LikesOf(h, prefix_steps)
    BY DEF LikesOf, Weighed
  <2> HIDE DEF h
  <2>5. \A m \in Games : LikesOf(game'[m], prefix_steps)
    BY <2>3, <2>4 DEF LikesInv
  <2> QED BY <1>0, <1>1, <2>2, <2>3, <2>5
<1>7. CASE EndRound
  <2>1. batch_map' = <<>> /\ game' = game /\ pass' = pass
    BY <1>7 DEF EndRound, LoopInv
  <2> QED BY <1>0, <1>1, <2>1 DEF LikesInv
<1>8. CASE Rebuild
  <2>1. batch_map' = <<>> /\ game' = [gi \in Games |-> Fresh]
    BY <1>8 DEF Rebuild, LoopInv
  <2>2. LikesOf(Fresh, prefix_steps)
    BY <1>0, FreshWeighs
  <2> HIDE DEF Fresh
  <2> QED BY <1>0, <2>1, <2>2 DEF LikesInv, RowsInv
<1>9. CASE UNCHANGED vars
  BY <1>9 DEF vars, request, LikesInv, RowsInv
<1> QED BY <1>2, <1>3, <1>4, <1>5, <1>6, <1>7, <1>8, <1>9 DEF Next

(* A deal is weighed by every forced discard of the opponents exactly once,
   and by no other discard. *)
THEOREM WeighedOnce == Spec => []LikelihoodOnce
<1>1. WeighInv => LikelihoodOnce
  BY DEF WeighInv, LikesInv, LikesOf, LikelihoodOnce
<1> QED BY <1>1, InitReturns, StepReturns, InitWeighs, StepWeighs, PTL DEF Spec
-----------------------------------------------------------------------------
(***************************************************************************)
(* The first action.                                                       *)
(***************************************************************************)
Acting == {"reactions", "is_first", "pending_riichi", "pending_meld", "prefix_completed",
           "prefix_index", "first", "did", "followed", "ended", "error", "left", "cans", "turn"}
Finals == {"ron", "tsumo", "ryukyoku"}

(* Who can discard is alone to act. *)
TableOf(g) ==
  /\ g.cans \in [Players -> SUBSET Actions]
  /\ \A p, q \in Players : "discard" \in g.cans[p] /\ q # p => g.cans[q] = {}

(* The first action is owed until it is tried, then it waits for the poll, and
   then it is the one of the request.  Without a prefix nobody else can act
   before it. *)
FirstOf(g, w, steps, in) ==
  /\ g.first \in {None, w}
  /\ g.is_first => g.first = None /\ ~g.pending_riichi /\ ~g.pending_meld
  /\ g.pending_riichi => w = "riichi"
  /\ ~g.prefix_completed => g.is_first
  /\ g.prefix_completed /\ g.is_first => g.reactions[target] = None
  /\ ~g.ended /\ ~g.is_first /\ g.first = None => g.reactions[target] = w
  /\ in = "prefix" => g.is_first
  /\ in = "main" /\ g.prefix_completed /\ g.is_first =>
       /\ steps = <<>> /\ g.turn = target
       /\ \A q \in Players \ {target} : g.cans[q] = {}

(* A round is not won or broken off before the first action, unless the bound
   on the polls ends it. *)
EndOf(g) ==
  /\ ~g.ended /\ g.first = None /\ (\E p \in Players : g.reactions[p] \in Finals) =>
       g.prefix_completed /\ g.reactions[target] # None
  /\ g.ended /\ ~g.error /\ g.first = None => g.left = 1

(* While the discard after a pon is owed, the pon is the target's last action. *)
FollowOf(g, w) ==
  w # "chi" =>
    /\ g.pending_meld =>
         /\ w = "pon"
         /\ g.reactions[target] = "pon" \/ (g.reactions[target] = None /\ g.did = "pon")
    /\ g.followed \in {None, "pon"}

PlayedOf(g, w, steps, in) ==
  /\ Acting \subseteq DOMAIN g /\ DOMAIN g.reactions = Players
  /\ TableOf(g) /\ FirstOf(g, w, steps, in) /\ EndOf(g) /\ FollowOf(g, w)

(* A player to be scanned, and one whose row the engine has not answered. *)
ScanOf(g, p) == g.reactions[p] = None /\ (p = target => ~g.ended)
AskOf(g, p, steps) ==
  /\ g.reactions[p] = None
  /\ p = target => ~g.pending_meld /\ (g.prefix_index > Len(steps) => g.first # None)
  /\ p # target /\ g.prefix_index > Len(steps) => ~g.is_first

(* Between the beginning of a round and its poll every player that can act is
   to be scanned, to be answered by the engine, or has been answered for. *)
Playing(g, w) == ~g.ended /\ g.prefix_completed /\ (w \in FirstCalls => g.first # None)
Heard(gi) ==
  \A p \in Players : game[gi].cans[p] # {} =>
    \/ <<gi, p>> \in todo
    \/ \E k \in DOMAIN batch_map : batch_map[k] = <<gi, p>>
    \/ game[gi].reactions[p] # None
Quiet(g) == ~g.ended => \A p \in Players : g.reactions[p] = None

RequestInv == want \in Want /\ (prefix_steps = <<>> => want \notin FirstCalls)
RoundInv ==
  /\ pass \in {"prefix", "main"} /\ unpolled \subseteq Games
  /\ todo # {} \/ batch_map # <<>> => unpolled = Games
  /\ phase = "round" => unpolled # {} \/ Games = {}
  /\ \A gi \in Games :
       IF phase = "round" /\ gi \in unpolled
       THEN pass = "main" /\ Playing(game[gi], want) => Heard(gi)
       ELSE Quiet(game[gi])
SeatsInv ==
  /\ \A s \in todo : ScanOf(game[s[1]], s[2])
  /\ \A k \in DOMAIN batch_map : AskOf(game[batch_map[k][1]], batch_map[k][2], prefix_steps)
PlayedInv == \A gi \in Games : PlayedOf(game[gi], want, prefix_steps, pass)
FirstInv == RequestInv /\ RoundInv /\ SeatsInv /\ PlayedInv
-----------------------------------------------------------------------------
LEMMA PlayersFacts == Players \subseteq Nat /\ target \in Players
<1> DEFINE n == Cardinality(Players) - 1
<1>1. target \in Players /\ Players = 0 .. n
  BY BatchAssumption, PlayerAssumption
<1> HIDE DEF n
<1> QED BY <1>1

LEMMA LeastIsMember ==
  ASSUME NEW S \in SUBSET Nat, S # {}
  PROVE  Least(S) \in S /\ \A n \in S : Least(S) <= n
<1>1. \E n \in S : \A m \in S : n <= m
  BY LeastNat
<1> QED BY <1>1 DEF Least

(* Some player has a reaction of the highest priority. *)
LEMMA ChosenIsPlayer ==
  ASSUME NEW rx
  PROVE  Chosen(rx) \in Players
<1> DEFINE T == {Priority(rx[p]) : p \in Players}
           S == {p \in Players : \A q \in Players : Priority(rx[p]) <= Priority(rx[q])}
<1>1. T \in SUBSET Nat /\ T # {}
  BY PlayersFacts DEF Priority
<1>2. PICK n \in T : \A m \in T : n <= m
  BY <1>1, LeastNat
<1>3. S # {}
  BY <1>2
<1>4. S \in SUBSET Nat
  BY PlayersFacts
<1>5. Least(S) \in S
  BY <1>3, <1>4, LeastIsMember
<1> QED BY <1>5 DEF Chosen

LEMMA OnlyTable ==
  ASSUME NEW p, NEW acts \in SUBSET Actions, NEW b, b.cans = Only(p, acts)
  PROVE  TableOf(b)
  BY DEF TableOf, Only

LEMMA OutcomesTable ==
  ASSUME NEW g, NEW rx, NEW b \in Outcomes(g, rx)
  PROVE  TableOf(b)
<1>1. ASSUME NEW p, NEW c \in ToMove(p) PROVE TableOf(c)
  <2>1. \A d \in Draws(p) : d \in SUBSET Actions
    BY DEF Draws, Actions, OnDraw
  <2>2. PICK d \in Draws(p) : c = [turn |-> p, cans |-> Only(p, d)]
    BY <1>1 DEF ToMove
  <2>3. c.cans = Only(p, d)
    BY <2>2
  <2> QED BY <2>1, <2>3, OnlyTable
<1>2. ASSUME NEW p, NEW c \in AfterDiscard(p) PROVE TableOf(c)
  <2>1. CASE c \in ToMove(After(p))
    BY <1>1, <2>1
  <2>2. CASE \E o \in Offers(p) : c = [turn |-> p, cans |-> o]
    <3> PICK o \in Offers(p) : c = [turn |-> p, cans |-> o]
      BY <2>2
    <3>1. PICK own \in OwnCalls(p) :
            \/ o = Only(target, own)
            \/ \E q \in Players \ {p, target}, call \in RivalCalls(own) : o = Asked(own, q, call)
      BY DEF Offers
    <3>2. own \in SUBSET Calls
      BY DEF OwnCalls, Calls
    <3>3. \A call \in RivalCalls(own) : call \in Calls
      BY DEF RivalCalls, Calls
    <3>4. o \in [Players -> SUBSET Calls]
      <4>1. CASE o = Only(target, own)
        BY <3>2, <4>1 DEF Only
      <4>2. CASE \E q \in Players \ {p, target}, call \in RivalCalls(own) : o = Asked(own, q, call)
        BY <3>2, <3>3, <4>2 DEF Only, Asked
      <4> QED BY <3>1, <4>1, <4>2
    <3>5. c.cans = o
      OBVIOUS
    <3>6. SUBSET Calls \subseteq SUBSET Actions /\ "discard" \notin Calls
      BY DEF Calls, Actions, OnDraw
    <3>7. \A q \in Players : o[q] \in SUBSET Calls /\ "discard" \notin o[q]
      BY <3>4, <3>6
    <3>8. o \in [Players -> SUBSET Actions]
      BY <3>4, <3>6
    <3> QED BY <3>5, <3>7, <3>8 DEF TableOf
  <2> QED BY <1>2, <2>1, <2>2 DEF AfterDiscard
<1>3. ASSUME NEW p, b \in {[turn |-> p, cans |-> Only(p, {"discard"})]} PROVE TableOf(b)
  <2>1. b.cans = Only(p, {"discard"}) /\ {"discard"} \in SUBSET Actions
    BY <1>3 DEF Actions, OnDraw
  <2> QED BY <2>1, OnlyTable
<1> QED BY <1>1, <1>2, <1>3 DEF Outcomes

LEMMA WordsDiffer ==
  /\ None \notin Actions /\ None # "pass" /\ None \notin Finals
  /\ want \in Want => want # None
  /\ "riichi" \notin Finals /\ "discard" \notin Finals /\ "pass" \notin Finals
  /\ "riichi" # None /\ "discard" # None
<1>1. None \notin Actions \cup {"pass"}
  BY NoneAssumption
<1>2. Finals \subseteq Actions /\ "riichi" \in Actions /\ "discard" \in Actions
  BY DEF Finals, Actions, OnDraw, Calls
<1>3. Want \subseteq Actions \cup {"pass"}
  BY WantAssumption DEF Actions, OnDraw, Calls
<1> QED BY <1>1, <1>2, <1>3 DEF Finals
-----------------------------------------------------------------------------
(* After a poll nobody has reacted, and the first action, once tried, is done. *)
FirstAfter(g) == IF g.first = None /\ g.prefix_completed THEN g.reactions[target] ELSE g.first
DidAfter(g) == IF g.reactions[target] = None THEN g.did ELSE g.reactions[target]
PolledTo(g, h) ==
  /\ Acting \subseteq DOMAIN h
  /\ h.reactions = Silent /\ h.first = FirstAfter(g) /\ h.did = DidAfter(g)
  /\ h.is_first = g.is_first /\ h.pending_riichi = g.pending_riichi
  /\ h.pending_meld = g.pending_meld /\ h.prefix_completed = g.prefix_completed
  /\ h.followed = g.followed
LeftAlone(g, h) == h.cans = g.cans /\ h.turn = g.turn /\ h.left = g.left /\ h.error = g.error

LEMMA FirstIsDone ==
  ASSUME NEW g, NEW w, w # None, NEW steps, NEW in, PlayedOf(g, w, steps, in), ~g.ended
  PROVE  FirstAfter(g) = IF g.is_first THEN None ELSE w
  BY DEF PlayedOf, FirstOf, FirstAfter

LEMMA PolledPlays ==
  ASSUME NEW g, NEW w, w # None, NEW steps, NEW in, PlayedOf(g, w, steps, in), ~g.ended,
         NEW h, PolledTo(g, h), TableOf(h),
         in = "main" /\ g.prefix_completed /\ g.is_first =>
           h.turn = target /\ \A q \in Players \ {target} : h.cans[q] = {},
         h.ended /\ ~h.error /\ h.first = None => h.left = 1
  PROVE  PlayedOf(h, w, steps, in) /\ Quiet(h)
<1>1. h.first = IF g.is_first THEN None ELSE w
  BY FirstIsDone DEF PolledTo
<1>2. /\ target \in Players /\ DOMAIN h.reactions = Players
      /\ \A p \in Players : h.reactions[p] = None
  BY PlayersFacts DEF PolledTo, Silent
<1>3. FirstOf(h, w, steps, in)
  BY <1>1, <1>2 DEF PolledTo, PlayedOf, FirstOf
<1>4. EndOf(h)
  <2>1. ~ \E p \in Players : h.reactions[p] \in Finals
    BY <1>2, WordsDiffer
  <2> QED BY <2>1 DEF EndOf
<1>5. FollowOf(h, w)
  BY <1>2 DEF PlayedOf, FollowOf, PolledTo, DidAfter
<1> QED BY <1>2, <1>3, <1>4, <1>5 DEF PlayedOf, Quiet, PolledTo

(* Before the first action the table stays with the target: the board only deals. *)
LEMMA OutcomesStay ==
  ASSUME NEW g, TableOf(g), g.turn = target, \A q \in Players : g.cans[q] = {}, NEW rx,
         ~Refuses(g, rx), NEW b \in Outcomes(g, rx)
  PROVE  b.turn = target /\ \A q \in Players \ {target} : b.cans[q] = {}
<1>1. g.cans = NoCans
  BY DEF TableOf, NoCans
<1>2. rx[Chosen(rx)] \in {None, "pass"}
  BY ChosenIsPlayer DEF Refuses
<1>3. rx[Chosen(rx)] \notin {"discard", "riichi", "chi", "pon", "ankan", "daiminkan"}
  BY <1>2, NoneAssumption DEF Actions, OnDraw, Calls
<1>4. b \in ToMove(target)
  <2> DEFINE r == rx[Chosen(rx)]
  <2> HIDE DEF r
  <2>1. r \in {None, "pass"}
    BY <1>2 DEF r
  <2>2. b \in CASE g.cans = NoCans -> ToMove(g.turn)
               [] g.cans # NoCans /\ r \in {None, "pass"} ->
                    IF g.cans[g.turn] # {} THEN ToMove(g.turn) ELSE ToMove(After(g.turn))
               [] r = "discard" -> AfterDiscard(Chosen(rx))
               [] r \in {"riichi", "chi", "pon"} ->
                    {[turn |-> Chosen(rx), cans |-> Only(Chosen(rx), {"discard"})]}
               [] r \in {"ankan", "daiminkan"} -> ToMove(Chosen(rx))
               [] OTHER -> {}
    BY DEF Outcomes, r
  <2>3. r \notin {"discard", "riichi", "chi", "pon", "ankan", "daiminkan"}
    BY <1>3 DEF r
  <2> QED BY <1>1, <2>2, <2>3
<1> QED BY <1>4 DEF ToMove, Only

LEMMA PollPlays ==
  ASSUME NEW g, NEW w, w # None, NEW steps, NEW in, PlayedOf(g, w, steps, in), ~g.ended,
         in = "main" /\ g.prefix_completed /\ g.is_first => g.cans[target] = {},
         NEW h \in advance_game(g)
  PROVE  PlayedOf(h, w, steps, in) /\ Quiet(h)
<1> DEFINE after == Submitted(g)
           rx == g.reactions
           recovered == [after EXCEPT !.recovered = TRUE]
<1>1. PolledTo(g, after) /\ LeftAlone(g, after) /\ ~after.ended
  BY DEF Submitted, PolledTo, LeftAlone, FirstAfter, DidAfter, PlayedOf, Acting
<1> HIDE DEF after
<1>2. PolledTo(g, recovered) /\ LeftAlone(g, recovered) /\ ~recovered.ended
  BY <1>1 DEF PolledTo, LeftAlone, Acting
<1> HIDE DEF recovered
<1>3. ASSUME h.ended, h.cans = g.cans, h.turn = g.turn, PolledTo(g, h),
             h.ended /\ ~h.error /\ h.first = None => h.left = 1
      PROVE  PlayedOf(h, w, steps, in) /\ Quiet(h)
  <2>1. TableOf(h)
    BY <1>3 DEF PlayedOf, TableOf
  <2>2. in = "main" /\ g.prefix_completed /\ g.is_first =>
          h.turn = target /\ \A q \in Players \ {target} : h.cans[q] = {}
    BY <1>3 DEF PlayedOf, FirstOf
  <2> QED BY <1>3, <2>1, <2>2, PolledPlays
<1>4. CASE Ends(g, Retried(g)) /\ h = [recovered EXCEPT !.ended = TRUE]
  <2>1. /\ PolledTo(g, h) /\ LeftAlone(g, h) /\ h.ended
    BY <1>2, <1>4 DEF PolledTo, LeftAlone, Acting
  <2> DEFINE again == Retried(g)
  <2>2. \A p \in Players : again[p] \in {"discard", None}
    BY DEF Retried
  <2>3. Ends(g, again)
    BY <1>4
  <2> HIDE DEF again
  <2>4. again[Chosen(again)] \notin Finals
    <3>1. Chosen(again) \in Players
      BY ChosenIsPlayer
    <3> QED BY <2>2, <3>1, WordsDiffer
  <2>5. h.left = 1
    BY <2>1, <2>3, <2>4 DEF Ends, Finals, LeftAlone
  <2> QED BY <1>3, <2>1, <2>5 DEF LeftAlone
<1>5. CASE h = KeepsError(recovered)
  <2>1. PolledTo(g, h) /\ h.cans = g.cans /\ h.turn = g.turn /\ h.ended /\ h.error
    BY <1>2, <1>5 DEF KeepsError, PolledTo, LeftAlone, Acting
  <2> QED BY <1>3, <2>1
<1>6. CASE Ends(g, rx) /\ h = [after EXCEPT !.ended = TRUE, !.hora = Horas(g, rx)]
  <2>1. PolledTo(g, h) /\ LeftAlone(g, h) /\ h.ended
    BY <1>1, <1>6 DEF PolledTo, LeftAlone, Acting
  <2>2. CASE g.left = 1
    BY <1>3, <2>1, <2>2 DEF LeftAlone
  <2>3. CASE rx[Chosen(rx)] \in Finals
    <3>1. g.first # None \/ (g.prefix_completed /\ g.reactions[target] # None)
      BY <2>3, ChosenIsPlayer DEF PlayedOf, EndOf
    <3>2. h.first # None
      BY <2>1, <3>1 DEF PolledTo, FirstAfter
    <3> QED BY <1>3, <2>1, <3>2 DEF LeftAlone
  <2> QED BY <1>6, <2>2, <2>3 DEF Ends, Finals
<1>7. CASE ~Refuses(g, rx) /\ \E b \in Outcomes(g, rx) :
             h = [after EXCEPT !.turn = b.turn, !.cans = b.cans, !.left = @ - 1]
  <2> PICK b \in Outcomes(g, rx) :
             h = [after EXCEPT !.turn = b.turn, !.cans = b.cans, !.left = @ - 1]
    BY <1>7
  <2>1. PolledTo(g, h) /\ h.cans = b.cans /\ h.turn = b.turn /\ ~h.ended
    BY <1>1 DEF PolledTo, Acting
  <2>2. TableOf(h)
    <3>1. TableOf(b)
      BY OutcomesTable
    <3> QED BY <2>1, <3>1 DEF TableOf
  <2>3. ASSUME in = "main", g.prefix_completed, g.is_first
        PROVE  h.turn = target /\ \A q \in Players \ {target} : h.cans[q] = {}
    <3>1. g.turn = target /\ \A q \in Players : g.cans[q] = {}
      BY <2>3 DEF PlayedOf, FirstOf
    <3>2. TableOf(g)
      BY DEF PlayedOf
    <3>3. b.turn = target /\ \A q \in Players \ {target} : b.cans[q] = {}
      BY <1>7, <3>1, <3>2, OutcomesStay
    <3> QED BY <2>1, <3>3
  <2> QED BY <2>1, <2>2, <2>3, PolledPlays
<1> QED BY <1>4, <1>5, <1>6, <1>7 DEF advance_game, Polled, after, recovered
-----------------------------------------------------------------------------
(* The scan of a player and the engine's answer to him: what they leave. *)
Moved(g, h, p, steps) ==
  /\ Acting \subseteq DOMAIN h /\ DOMAIN h.reactions = Players
  /\ \A q \in Players \ {p} : h.reactions[q] = g.reactions[q]
  /\ h.cans = g.cans /\ h.turn = g.turn /\ h.left = g.left
  /\ h.first = g.first /\ h.did = g.did
  /\ h.is_first => g.is_first
  /\ p # target => h.ended = g.ended /\ h.pending_meld = g.pending_meld
  /\ g.ended => h.ended
  /\ \/ h.prefix_index = g.prefix_index
     \/ g.prefix_index <= Len(steps) /\ steps[g.prefix_index].actor = p
SameCourse(g, h) ==
  /\ h.is_first = g.is_first /\ h.prefix_completed = g.prefix_completed
  /\ h.pending_riichi = g.pending_riichi /\ h.pending_meld = g.pending_meld
  /\ h.followed = g.followed /\ h.ended = g.ended /\ h.error = g.error

LEMMA TableKept ==
  ASSUME NEW g, NEW h, TableOf(g), h.cans = g.cans
  PROVE  TableOf(h)
  BY DEF TableOf

(* A forced discard, or the riichi before it. *)
LEMMA ForcedPlays ==
  ASSUME NEW g, NEW w, NEW steps, NEW in, PlayedOf(g, w, steps, in), ~g.prefix_completed,
         NEW p \in Players, NEW h, Moved(g, h, p, steps), SameCourse(g, h),
         h.reactions[p] \in {"riichi", "discard", g.reactions[p]}
  PROVE  PlayedOf(h, w, steps, in)
<1>1. TableOf(h)
  BY TableKept DEF PlayedOf, Moved
<1>2. g.is_first /\ ~g.pending_meld /\ g.first = None
  BY DEF PlayedOf, FirstOf
<1>3. FirstOf(h, w, steps, in)
  BY <1>2 DEF PlayedOf, FirstOf, Moved, SameCourse
<1>4. \A q \in Players : h.reactions[q] \in Finals => h.reactions[q] = g.reactions[q]
  BY WordsDiffer DEF Moved
<1>5. EndOf(h)
  BY <1>2, <1>4 DEF PlayedOf, EndOf, Moved, SameCourse
<1>6. FollowOf(h, w)
  BY <1>2 DEF PlayedOf, FollowOf, SameCourse
<1> QED BY <1>1, <1>3, <1>5, <1>6 DEF PlayedOf, Moved

(* A reaction is set and nothing else. *)
Ready(g) == Acting \subseteq DOMAIN g /\ DOMAIN g.reactions = Players
Said(g, h, p, a, steps) == Moved(g, h, p, steps) /\ SameCourse(g, h) /\ h.reactions[p] = a

LEMMA SayFields ==
  ASSUME NEW g, Ready(g), NEW p \in Players, NEW a, NEW steps
  PROVE  Said(g, Say(g, p, a).g, p, a, steps)
<1> DEFINE h == Say(g, p, a).g
<1>0. h = [g EXCEPT !.reactions[p] = a]
  BY DEF Say
<1> HIDE DEF h
<1>1. /\ DOMAIN h = DOMAIN g /\ h.reactions = [g.reactions EXCEPT ![p] = a]
      /\ h.cans = g.cans /\ h.turn = g.turn /\ h.left = g.left
      /\ h.first = g.first /\ h.did = g.did /\ h.prefix_index = g.prefix_index
      /\ SameCourse(g, h)
  BY <1>0 DEF Ready, Acting, SameCourse
<1>2. DOMAIN h.reactions = Players /\ h.reactions[p] = a
  BY <1>1 DEF Ready
<1>3. \A q \in Players \ {p} : h.reactions[q] = g.reactions[q]
  BY <1>1 DEF Ready
<1> QED BY <1>1, <1>2, <1>3 DEF Said, Ready, Moved, SameCourse, h

LEMMA ScanPrefixPlays ==
  ASSUME NEW g, PlayedOf(g, want, prefix_steps, pass), ~g.prefix_completed, InPrefix(g),
         "reach_declared" \in DOMAIN g,
         NEW p \in Players, NEW s, s = ScanPrefix(g, p)
  PROVE  /\ PlayedOf(s.g, want, prefix_steps, pass) /\ ~s.g.prefix_completed
         /\ Moved(g, s.g, p, prefix_steps)
         /\ s.row => s.g = g
<1> DEFINE step == prefix_steps[g.prefix_index]
<1>0. Acting \subseteq DOMAIN g /\ DOMAIN g.reactions = Players
  BY DEF PlayedOf
<1>1. ASSUME s.g = g PROVE Moved(g, s.g, p, prefix_steps)
  BY <1>0, <1>1 DEF Moved
<1>2. CASE s = Skip(g) \/ s = Ask(g)
  BY <1>1, <1>2 DEF Skip, Ask
<1>3. CASE s = Say([g EXCEPT !.reach_declared = TRUE], p, "riichi")
  <2> DEFINE f == [g EXCEPT !.reach_declared = TRUE]
  <2>1. /\ DOMAIN f = DOMAIN g /\ f.reactions = g.reactions
        /\ f.cans = g.cans /\ f.turn = g.turn /\ f.left = g.left
        /\ f.first = g.first /\ f.did = g.did /\ f.prefix_index = g.prefix_index
        /\ SameCourse(g, f)
    BY <1>0 DEF Acting, SameCourse
  <2>2. s.g = Say(f, p, "riichi").g /\ ~s.row
    BY <1>3 DEF Say
  <2> HIDE DEF f
  <2>a. Ready(f)
    BY <1>0, <2>1 DEF Ready
  <2>3. Moved(f, s.g, p, prefix_steps) /\ SameCourse(f, s.g) /\ s.g.reactions[p] = "riichi"
    BY <2>2, <2>a, SayFields DEF Said
  <2>4. Moved(g, s.g, p, prefix_steps) /\ SameCourse(g, s.g)
    BY <2>1, <2>3 DEF Moved, SameCourse
  <2> QED BY <2>2, <2>3, <2>4, ForcedPlays DEF SameCourse
<1>4. CASE s = ForcedDiscard(g, p) /\ p = step.actor
  <2> DEFINE f == [g EXCEPT !.prefix_index = @ + 1, !.reach_declared = FALSE]
  <2>1. /\ DOMAIN f = DOMAIN g /\ f.reactions = g.reactions
        /\ f.cans = g.cans /\ f.turn = g.turn /\ f.left = g.left
        /\ f.first = g.first /\ f.did = g.did
        /\ SameCourse(g, f)
    BY <1>0 DEF Acting, SameCourse
  <2>2. s.g = Say(f, p, "discard").g /\ ~s.row
    BY <1>4 DEF Say, ForcedDiscard
  <2> HIDE DEF f
  <2>a. Ready(f)
    BY <1>0, <2>1 DEF Ready
  <2>3. Moved(f, s.g, p, prefix_steps) /\ SameCourse(f, s.g) /\ s.g.reactions[p] = "discard"
    BY <2>2, <2>a, SayFields DEF Said
  <2>4. Moved(g, s.g, p, prefix_steps) /\ SameCourse(g, s.g)
    BY <1>4, <2>1, <2>3 DEF Moved, SameCourse, InPrefix
  <2> QED BY <2>2, <2>3, <2>4, ForcedPlays DEF SameCourse
<1> QED BY <1>2, <1>3, <1>4 DEF ScanPrefix
-----------------------------------------------------------------------------
LEMMA IndexFacts ==
  ASSUME NEW g, prefix_steps \in Seq(Steps), LikesOf(g, prefix_steps)
  PROVE  /\ InPrefix(g) <=> ~(g.prefix_index > Len(prefix_steps))
         /\ g.prefix_completed => ~InPrefix(g)
  BY DEF LikesOf, InPrefix

(* The target tries the first action: it is said, or the game is given up. *)
Trying(g, f) ==
  /\ Acting \subseteq DOMAIN f /\ f.reactions = g.reactions
  /\ f.cans = g.cans /\ f.turn = g.turn /\ f.left = g.left
  /\ f.first = g.first /\ f.did = g.did /\ f.prefix_index = g.prefix_index
  /\ f.prefix_completed /\ ~f.is_first /\ f.followed = g.followed

LEMMA TriedPlays ==
  ASSUME NEW g, PlayedOf(g, want, prefix_steps, pass), pass = "main", want \in Want,
         g.is_first, ~g.ended, g.reactions[target] = None,
         NEW f, Trying(g, f), ~f.ended,
         f.pending_riichi => want = "riichi",
         want # "chi" /\ f.pending_meld => want = "pon",
         NEW s, s = Say(f, target, want)
  PROVE  /\ PlayedOf(s.g, want, prefix_steps, pass) /\ Moved(g, s.g, target, prefix_steps)
         /\ ~s.row /\ s.g.prefix_completed /\ s.g.reactions[target] # None
<1>0. Acting \subseteq DOMAIN f /\ DOMAIN f.reactions = Players /\ target \in Players
  BY PlayersFacts DEF PlayedOf, Trying
<1>1. s.g = Say(f, target, want).g /\ ~s.row
  BY DEF Say
<1>2. /\ Moved(f, s.g, target, prefix_steps) /\ SameCourse(f, s.g)
      /\ s.g.reactions[target] = want
  <2>1. Ready(f) /\ target \in Players
    BY <1>0 DEF Ready
  <2> QED BY <1>1, <2>1, SayFields DEF Said
<1>3. want # None
  BY WordsDiffer
<1>4. g.first = None /\ ~g.pending_meld
  BY DEF PlayedOf, FirstOf
<1>5. Moved(g, s.g, target, prefix_steps)
  BY <1>2 DEF Moved, SameCourse, Trying
<1>6. TableOf(s.g)
  BY <1>5, TableKept DEF PlayedOf, Moved
<1>7. FirstOf(s.g, want, prefix_steps, pass)
  BY <1>2, <1>4, <1>5 DEF FirstOf, Moved, SameCourse, Trying
<1>8. EndOf(s.g)
  BY <1>2, <1>3 DEF EndOf, SameCourse, Trying
<1>9. FollowOf(s.g, want)
  BY <1>2 DEF PlayedOf, FollowOf, SameCourse, Trying
<1> QED BY <1>1, <1>2, <1>3, <1>5, <1>6, <1>7, <1>8, <1>9 DEF PlayedOf, Moved, SameCourse, Trying

LEMMA FailedPlays ==
  ASSUME NEW g, PlayedOf(g, want, prefix_steps, pass), pass = "main",
         g.is_first, NEW f, Trying(g, f), f.ended, f.error,
         ~f.pending_riichi, ~f.pending_meld
  PROVE  PlayedOf(f, want, prefix_steps, pass) /\ Moved(g, f, target, prefix_steps)
<1>1. g.first = None /\ ~g.pending_meld
  BY DEF PlayedOf, FirstOf
<1>2. Moved(g, f, target, prefix_steps)
  BY <1>1 DEF Moved, Trying, PlayedOf
<1>3. TableOf(f)
  BY <1>2, TableKept DEF PlayedOf, Moved
<1>4. FirstOf(f, want, prefix_steps, pass)
  BY <1>1 DEF FirstOf, Trying
<1>5. EndOf(f) /\ FollowOf(f, want)
  BY DEF PlayedOf, EndOf, FollowOf, Trying
<1> QED BY <1>2, <1>3, <1>4, <1>5 DEF PlayedOf, Moved

(* What ScanFirst is given: the decision is reached. *)
Reached(g, r) ==
  /\ Acting \subseteq DOMAIN r /\ r.reactions = g.reactions
  /\ r.cans = g.cans /\ r.turn = g.turn /\ r.left = g.left
  /\ r.first = g.first /\ r.did = g.did /\ r.prefix_index = g.prefix_index
  /\ r.prefix_completed /\ r.followed = g.followed
  /\ r.is_first = g.is_first /\ r.ended = g.ended /\ r.error = g.error
  /\ r.pending_riichi = g.pending_riichi /\ r.pending_meld = g.pending_meld

LEMMA FirstPlays ==
  ASSUME NEW g, PlayedOf(g, want, prefix_steps, pass), pass = "main", want \in Want,
         g.is_first, ~g.ended, g.reactions[target] = None,
         NEW r, Reached(g, r), NEW s, s = ScanFirst(r)
  PROVE  /\ PlayedOf(s.g, want, prefix_steps, pass) /\ Moved(g, s.g, target, prefix_steps)
         /\ ~s.row /\ (s.g.ended \/ s.g.reactions[target] # None)
<1>1. ~g.pending_riichi /\ ~g.pending_meld
  BY DEF PlayedOf, FirstOf
<1> DEFINE tried == [r EXCEPT !.is_first = FALSE]
<1>2. /\ Trying(g, tried) /\ ~tried.ended
      /\ ~tried.pending_riichi /\ ~tried.pending_meld
  BY <1>1 DEF Trying, Reached, Acting
<1> HIDE DEF tried
<1>3. CASE s = Skip([tried EXCEPT !.ended = TRUE, !.error = TRUE])
  <2> DEFINE f == [tried EXCEPT !.ended = TRUE, !.error = TRUE]
  <2>1. Trying(g, f) /\ f.ended /\ f.error /\ ~f.pending_riichi /\ ~f.pending_meld
    BY <1>2 DEF Trying, Acting
  <2>2. s.g = f /\ ~s.row
    BY <1>3 DEF Skip
  <2> HIDE DEF f
  <2> QED BY <2>1, <2>2, FailedPlays
<1>4. CASE want = "riichi" /\ s = Say([tried EXCEPT !.pending_riichi = TRUE], target, want)
  <2> DEFINE f == [tried EXCEPT !.pending_riichi = TRUE]
  <2>1. Trying(g, f) /\ ~f.ended /\ ~f.pending_meld
    BY <1>2 DEF Trying, Acting
  <2> HIDE DEF f
  <2> QED BY <1>4, <2>1, TriedPlays DEF f
<1>5. CASE want \in {"chi", "pon"} /\ s = Say([tried EXCEPT !.pending_meld = TRUE], target, want)
  <2> DEFINE f == [tried EXCEPT !.pending_meld = TRUE]
  <2>1. Trying(g, f) /\ ~f.ended /\ ~f.pending_riichi
    BY <1>2 DEF Trying, Acting
  <2> HIDE DEF f
  <2> QED BY <1>5, <2>1, TriedPlays DEF f
<1>6. CASE s = Say(tried, target, want)
  BY <1>2, <1>6, TriedPlays
<1> QED BY <1>3, <1>4, <1>5, <1>6 DEF ScanFirst, tried
-----------------------------------------------------------------------------
(* The target acts again: what it owes is a discard, or the engine decides. *)
Acts(g, f) ==
  /\ Acting \subseteq DOMAIN f /\ f.reactions = g.reactions
  /\ f.cans = g.cans /\ f.turn = g.turn /\ f.left = g.left
  /\ f.first = g.first /\ f.did = g.did /\ f.prefix_index = g.prefix_index
  /\ f.prefix_completed /\ ~f.is_first /\ ~f.ended
  /\ f.pending_riichi => want = "riichi"
  /\ want # "chi" => ~f.pending_meld /\ f.followed \in {None, "pon"}

LEMMA ActsPlays ==
  ASSUME NEW g, PlayedOf(g, want, prefix_steps, pass), pass = "main", want # None,
         g.first = want, ~g.ended, NEW f, Acts(g, f)
  PROVE  /\ Moved(g, f, target, prefix_steps)
         /\ PlayedOf(f, want, prefix_steps, pass)
<1>1. Moved(g, f, target, prefix_steps)
  BY DEF Acts, Moved, PlayedOf
<1>2. TableOf(f)
  BY <1>1, TableKept DEF PlayedOf, Moved
<1>3. FirstOf(f, want, prefix_steps, pass) /\ EndOf(f)
  BY DEF FirstOf, EndOf, Acts
<1>4. g.reactions[target] = f.reactions[target] /\ FollowOf(f, want)
  BY DEF FollowOf, Acts
<1> QED BY <1>1, <1>2, <1>3, <1>4 DEF PlayedOf, Moved

LEMMA DiscardPlays ==
  ASSUME NEW g, PlayedOf(g, want, prefix_steps, pass), pass = "main", want # None,
         g.first = want, ~g.ended, NEW f, Acts(g, f),
         NEW s, s = Say(f, target, "discard")
  PROVE  /\ PlayedOf(s.g, want, prefix_steps, pass) /\ Moved(g, s.g, target, prefix_steps)
         /\ ~s.row /\ s.g.reactions[target] # None
<1>0. /\ Acting \subseteq DOMAIN f /\ DOMAIN f.reactions = Players /\ target \in Players
  BY PlayersFacts DEF PlayedOf, Acts
<1>1. s.g = Say(f, target, "discard").g /\ ~s.row
  BY DEF Say
<1>2. /\ Moved(f, s.g, target, prefix_steps) /\ SameCourse(f, s.g)
      /\ s.g.reactions[target] = "discard"
  <2>1. Ready(f) /\ target \in Players
    BY <1>0 DEF Ready
  <2> QED BY <1>1, <2>1, SayFields DEF Said
<1>3. Moved(g, f, target, prefix_steps) /\ PlayedOf(f, want, prefix_steps, pass)
  BY ActsPlays
<1>4. Moved(g, s.g, target, prefix_steps)
  BY <1>2, <1>3 DEF Moved
<1>5. TableOf(s.g)
  BY <1>2, <1>3, TableKept DEF PlayedOf, Moved
<1>6. FirstOf(s.g, want, prefix_steps, pass) /\ EndOf(s.g) /\ FollowOf(s.g, want)
  BY <1>2 DEF FirstOf, EndOf, FollowOf, SameCourse, Moved, Acts
<1> QED BY <1>1, <1>2, <1>4, <1>5, <1>6, WordsDiffer DEF PlayedOf, Moved

LEMMA TargetPlays ==
  ASSUME NEW g, PlayedOf(g, want, prefix_steps, pass), pass = "main", want \in Want,
         ~g.ended, g.reactions[target] = None,
         NEW r, Reached(g, r), NEW s, s = ScanTarget(r)
  PROVE  /\ PlayedOf(s.g, want, prefix_steps, pass) /\ Moved(g, s.g, target, prefix_steps)
         /\ s.row => AskOf(s.g, target, prefix_steps)
         /\ s.row \/ s.g.ended \/ s.g.reactions[target] # None
<1>a. want # None /\ "pon" # None
  <2>1. "pon" \in Actions
    BY DEF Actions, Calls
  <2> QED BY <2>1, WordsDiffer
<1>1. CASE g.is_first
  <2>1. s = ScanFirst(r)
    BY <1>1 DEF ScanTarget, Reached, PlayedOf, FirstOf
  <2> QED BY <1>1, <2>1, FirstPlays
<1>2. CASE ~g.is_first
  <2>1. g.first = want
    BY <1>2 DEF PlayedOf, FirstOf
  <2>2. /\ g.pending_riichi => want = "riichi"
        /\ want # "chi" /\ g.pending_meld => want = "pon" /\ g.did = "pon"
        /\ want # "chi" => g.followed \in {None, "pon"}
    BY <1>a DEF PlayedOf, FirstOf, FollowOf
  <2>3. CASE g.pending_riichi /\ s = Say([r EXCEPT !.pending_riichi = FALSE], target, "discard")
    <3> DEFINE f == [r EXCEPT !.pending_riichi = FALSE]
    <3>1. want = "riichi" /\ ~(want # "chi" /\ g.pending_meld)
      BY <2>2, <2>3
    <3>2. Acts(g, f)
      BY <1>2, <2>2, <3>1 DEF Acts, Reached, Acting
    <3> HIDE DEF f
    <3> QED BY <1>a, <2>1, <2>3, <3>2, DiscardPlays DEF f
  <2>4. CASE Owes(r) /\ s = Say([r EXCEPT !.pending_meld = FALSE, !.followed = r.did],
                                target, "discard")
    <3> DEFINE f == [r EXCEPT !.pending_meld = FALSE, !.followed = r.did]
    <3>1. g.pending_meld /\ (want # "chi" => r.did = "pon")
      BY <2>2, <2>4 DEF Owes, Reached
    <3>2. Acts(g, f)
      BY <1>2, <2>2, <3>1 DEF Acts, Reached, Acting
    <3> HIDE DEF f
    <3> QED BY <1>a, <2>1, <2>4, <3>2, DiscardPlays DEF f
  <2>5. CASE s = Ask([r EXCEPT !.pending_meld = FALSE])
    <3> DEFINE f == [r EXCEPT !.pending_meld = FALSE]
    <3>1. Acts(g, f) /\ ~f.pending_meld
      BY <1>2, <2>2 DEF Acts, Reached, Acting
    <3>2. s.g = f /\ s.row
      BY <2>5 DEF Ask
    <3> HIDE DEF f
    <3>3. Moved(g, f, target, prefix_steps) /\ PlayedOf(f, want, prefix_steps, pass)
      BY <1>a, <2>1, <3>1, ActsPlays
    <3>4. AskOf(f, target, prefix_steps)
      BY <1>a, <2>1, <3>1 DEF AskOf, Acts
    <3> QED BY <3>2, <3>3, <3>4
  <2> QED BY <1>2, <2>3, <2>4, <2>5 DEF ScanTarget, Reached
<1> QED BY <1>1, <1>2
-----------------------------------------------------------------------------
(* The scan of a player that can act. *)
LEMMA ScanPlays ==
  ASSUME NEW g, PlayedOf(g, want, prefix_steps, pass), want \in Want, pass \in {"prefix", "main"},
         prefix_steps \in Seq(Steps), LikesOf(g, prefix_steps),
         NEW p \in Players, ScanOf(g, p), NEW s, s = ScanPlayer(g, p)
  PROVE  /\ PlayedOf(s.g, want, prefix_steps, pass) /\ Moved(g, s.g, p, prefix_steps)
         /\ s.row => AskOf(s.g, p, prefix_steps)
         /\ pass = "main" /\ Playing(s.g, want) /\ g.cans[p] # {} =>
              s.row \/ s.g.reactions[p] # None
         /\ pass = "main" /\ Playing(s.g, want) =>
              Playing(g, want) \/ \A q \in Players \ {p} : g.cans[q] = {}
<1>0. Acting \subseteq DOMAIN g /\ DOMAIN g.reactions = Players /\ g.reactions[p] = None
  BY DEF PlayedOf, ScanOf
<1>a. Moved(g, g, p, prefix_steps)
  BY <1>0 DEF Moved
<1>b. "reach_declared" \in DOMAIN g
  BY DEF LikesOf, Weighed
<1>c. \A h : Moved(g, h, p, prefix_steps) /\ h.prefix_completed = g.prefix_completed
             /\ Playing(h, want) => Playing(g, want)
  BY DEF Moved, Playing
<1>1. CASE g.cans[p] = {}
  <2>1. s = Skip(g)
    BY <1>1 DEF ScanPlayer
  <2>2. s.g = g /\ ~s.row
    BY <2>1 DEF Skip
  <2> QED BY <1>1, <1>a, <2>2
<1>2. CASE g.cans[p] # {} /\ ~g.prefix_completed /\ InPrefix(g)
  <2>1. s = ScanPrefix(g, p)
    BY <1>2 DEF ScanPlayer
  <2>2. /\ PlayedOf(s.g, want, prefix_steps, pass) /\ ~s.g.prefix_completed
        /\ Moved(g, s.g, p, prefix_steps)
        /\ s.row => s.g = g
    BY <1>2, <1>b, <2>1, ScanPrefixPlays
  <2>3. AskOf(g, p, prefix_steps)
    <3>1. ~g.pending_meld
      BY <1>2 DEF PlayedOf, FirstOf
    <3> QED BY <1>0, <1>2, <3>1, IndexFacts DEF AskOf
  <2> QED BY <2>2, <2>3 DEF Playing
<1>3. CASE ~g.prefix_completed /\ ~AtDecision(g, p) /\ ~InPrefix(g) /\ g.cans[p] # {}
  <2>1. s = Skip(g)
    BY <1>3 DEF ScanPlayer
  <2>2. s.g = g /\ ~s.row
    BY <2>1 DEF Skip
  <2> QED BY <1>3, <1>a, <2>2 DEF Playing
<1>4. CASE g.cans[p] # {} /\ (g.prefix_completed \/ (~InPrefix(g) /\ AtDecision(g, p)))
  <2> DEFINE r == [g EXCEPT !.prefix_completed = TRUE]
  <2>1. Reached(g, r)
    BY <1>0 DEF Reached, Acting
  <2>2. s = IF pass = "prefix" THEN Skip(r) ELSE IF p = target THEN ScanTarget(r) ELSE Ask(r)
    BY <1>4 DEF ScanPlayer
  <2> HIDE DEF r
  <2>3. Moved(g, r, p, prefix_steps)
    BY <1>0, <2>1 DEF Reached, Moved
  <2>4. TableOf(r)
    BY <2>1, TableKept DEF PlayedOf, Reached
  <2>5. g.prefix_completed /\ g.is_first => g.reactions[target] = None
    BY DEF PlayedOf, FirstOf
  <2>6. ~g.prefix_completed => g.reactions[target] = None /\ p = target
    BY <1>0, <1>4 DEF AtDecision
  <2>7. EndOf(r) /\ FollowOf(r, want)
    <3>1. FollowOf(r, want)
      BY <2>1 DEF PlayedOf, FollowOf, Reached
    <3>2. g.first = None /\ ~g.prefix_completed /\ ~g.ended =>
            ~ \E q \in Players : g.reactions[q] \in Finals
      BY DEF PlayedOf, EndOf
    <3> QED BY <2>1, <3>1, <3>2 DEF PlayedOf, EndOf, Reached
  <2>8. CASE pass = "prefix"
    <3>1. FirstOf(r, want, prefix_steps, pass)
      BY <2>1, <2>5, <2>6, <2>8 DEF PlayedOf, FirstOf, Reached
    <3>2. PlayedOf(r, want, prefix_steps, pass)
      BY <1>0, <2>1, <2>4, <2>7, <3>1 DEF PlayedOf, Reached
    <3>3. s.g = r /\ ~s.row
      BY <2>2, <2>8 DEF Skip
    <3> QED BY <2>3, <2>8, <3>2, <3>3
  <2>9. CASE pass = "main" /\ p = target
    <3>1. s = ScanTarget(r) /\ ~g.ended
      BY <2>2, <2>9 DEF ScanOf
    <3>2. /\ PlayedOf(s.g, want, prefix_steps, pass) /\ Moved(g, s.g, target, prefix_steps)
          /\ s.row => AskOf(s.g, target, prefix_steps)
          /\ s.row \/ s.g.ended \/ s.g.reactions[target] # None
      BY <1>0, <2>1, <2>9, <3>1, TargetPlays
    <3>3. ASSUME Playing(s.g, want), ~Playing(g, want)
          PROVE  \A q \in Players \ {p} : g.cans[q] = {}
      <4>1. ~g.prefix_completed
        BY <3>1, <3>2, <3>3 DEF Playing, Moved
      <4>2. g.first = None
        BY <4>1 DEF PlayedOf, FirstOf
      <4>3. want \notin FirstCalls
        BY <3>2, <3>3, <4>2 DEF Playing, Moved
      <4>4. "discard" \in g.cans[p]
        BY <1>4, <4>1, <4>3 DEF AtDecision
      <4> QED BY <4>4 DEF PlayedOf, TableOf
    <3> QED BY <2>9, <3>2, <3>3 DEF Playing
  <2>10. CASE pass = "main" /\ p # target
    <3>1. g.prefix_completed
      BY <2>6, <2>10
    <3>2. ~g.is_first
      BY <1>4, <2>10, <3>1 DEF PlayedOf, FirstOf
    <3>3. s.g = r /\ s.row
      BY <2>2, <2>10 DEF Ask
    <3>4. FirstOf(r, want, prefix_steps, pass)
      BY <2>1, <3>1 DEF PlayedOf, FirstOf, Reached
    <3>5. PlayedOf(r, want, prefix_steps, pass)
      BY <1>0, <2>1, <2>4, <2>7, <3>4 DEF PlayedOf, Reached
    <3>6. AskOf(r, p, prefix_steps)
      BY <1>0, <2>1, <2>10, <3>2 DEF AskOf, Reached
    <3> QED BY <2>3, <3>1, <3>3, <3>5, <3>6 DEF Playing, Moved
  <2> QED BY <2>8, <2>9, <2>10
<1> QED BY <1>1, <1>2, <1>3, <1>4

(* A step for one player leaves what is true of the other players of the game. *)
LEMMA OthersStay ==
  ASSUME NEW g, NEW h, NEW p \in Players, NEW q \in Players, q # p, Moved(g, h, p, prefix_steps)
  PROVE  /\ ScanOf(g, q) => ScanOf(h, q)
         /\ AskOf(g, q, prefix_steps) /\ RowOf(g, q, prefix_steps, pass)
            /\ prefix_steps \in Seq(Steps) /\ LikesOf(g, prefix_steps)
              => AskOf(h, q, prefix_steps)
<1>1. h.reactions[q] = g.reactions[q]
  BY DEF Moved
<1>2. ScanOf(g, q) => ScanOf(h, q)
  BY <1>1 DEF ScanOf, Moved
<1>3. ASSUME AskOf(g, q, prefix_steps), RowOf(g, q, prefix_steps, pass)
      PROVE  AskOf(h, q, prefix_steps)
  <2>1. h.prefix_index = g.prefix_index
    BY <1>3 DEF RowOf, Moved
  <2> QED BY <1>1, <1>3, <2>1 DEF AskOf, Moved
<1> QED BY <1>2, <1>3

(* The engine's answer to a row. *)
LEMMA WeighPlays ==
  ASSUME NEW g, PlayedOf(g, want, prefix_steps, pass),
         prefix_steps \in Seq(Steps), LikesOf(g, prefix_steps), InPrefix(g),
         NEW p \in Players, RowOf(g, p, prefix_steps, pass)
  PROVE  /\ PlayedOf(Weigh(g, p), want, prefix_steps, pass)
         /\ Moved(g, Weigh(g, p), p, prefix_steps)
         /\ ~Playing(Weigh(g, p), want)
<1> DEFINE weighed == [g EXCEPT !.likes[g.prefix_index] = @ + 1]
           f == [weighed EXCEPT !.prefix_index = @ + 1, !.reach_declared = FALSE]
<1>0. /\ Acting \subseteq DOMAIN g /\ DOMAIN g.reactions = Players /\ ~g.prefix_completed
      /\ prefix_steps[g.prefix_index].actor = p
  BY IndexFacts DEF PlayedOf, RowOf, InPrefix
<1>1. ~Declares(g, p)
  BY DEF RowOf, Declares, InPrefix
<1>2. /\ DOMAIN f = DOMAIN g /\ f.reactions = g.reactions
      /\ f.cans = g.cans /\ f.turn = g.turn /\ f.left = g.left
      /\ f.first = g.first /\ f.did = g.did
      /\ SameCourse(g, f)
  BY <1>0 DEF Acting, SameCourse
<1>3. Weigh(g, p) = Say(f, p, "discard").g
  BY <1>1 DEF Weigh, ForcedDiscard
<1> HIDE DEF f
<1> DEFINE h == Weigh(g, p)
<1> HIDE DEF h
<1>4. h = Say(f, p, "discard").g
  BY <1>3 DEF h
<1>5. Acting \subseteq DOMAIN f /\ DOMAIN f.reactions = Players
  BY <1>0, <1>2
<1>6. Moved(f, h, p, prefix_steps) /\ SameCourse(f, h) /\ h.reactions[p] = "discard"
  <2>1. Ready(f)
    BY <1>5 DEF Ready
  <2> QED BY <1>4, <2>1, SayFields DEF Said
<1>7. Moved(g, h, p, prefix_steps) /\ SameCourse(g, h)
  BY <1>0, <1>2, <1>6 DEF Moved, SameCourse, InPrefix
<1>8. PlayedOf(h, want, prefix_steps, pass)
  BY <1>0, <1>6, <1>7, ForcedPlays
<1> QED BY <1>0, <1>7, <1>8 DEF Playing, SameCourse, h

LEMMA EnginePlays ==
  ASSUME NEW g, PlayedOf(g, want, prefix_steps, pass), want \in Want,
         prefix_steps \in Seq(Steps), LikesOf(g, prefix_steps), ~InPrefix(g),
         NEW p \in Players, AskOf(g, p, prefix_steps), NEW a \in Legal(g, p),
         NEW h, h = Say(g, p, a).g
  PROVE  /\ PlayedOf(h, want, prefix_steps, pass) /\ Moved(g, h, p, prefix_steps)
         /\ h.reactions[p] # None /\ (Playing(h, want) => Playing(g, want))
<1>0. Acting \subseteq DOMAIN g /\ DOMAIN g.reactions = Players /\ target \in Players
  BY PlayersFacts DEF PlayedOf
<1>1. Moved(g, h, p, prefix_steps) /\ SameCourse(g, h) /\ h.reactions[p] = a
  <2>1. Ready(g)
    BY <1>0 DEF Ready
  <2>2. Said(g, Say(g, p, a).g, p, a, prefix_steps)
    BY <2>1, SayFields
  <2> QED BY <2>2 DEF Said
<1>2. a # None
  BY WordsDiffer DEF Legal, PlayedOf, TableOf
<1>3. TableOf(h)
  BY <1>1, TableKept DEF PlayedOf, Moved
<1>4. p = target => g.first # None /\ ~g.pending_meld
  BY IndexFacts DEF AskOf
<1>5. p # target => ~g.is_first
  BY IndexFacts DEF AskOf
<1>6. FirstOf(h, want, prefix_steps, pass)
  <2>1. CASE p = target
    BY <1>1, <1>4, <2>1 DEF PlayedOf, FirstOf, Moved, SameCourse
  <2>2. CASE p # target
    <3>1. h.reactions[target] = g.reactions[target]
      BY <1>0, <1>1, <2>2 DEF Moved
    <3> QED BY <1>1, <3>1 DEF PlayedOf, FirstOf, Moved, SameCourse
  <2> QED BY <2>1, <2>2
<1>7. EndOf(h)
  <2>1. CASE p = target
    BY <1>1, <1>4, <2>1 DEF EndOf, Moved
  <2>2. CASE p # target
    <3>1. h.reactions[target] = g.reactions[target]
      BY <1>0, <1>1, <2>2 DEF Moved
    <3>2. ASSUME ~g.ended, g.first = None
          PROVE  g.prefix_completed /\ g.reactions[target] # None
      <4>1. want # None /\ ~g.is_first
        BY <1>5, <2>2, WordsDiffer
      <4> QED BY <3>2, <4>1 DEF PlayedOf, FirstOf
    <3> QED BY <1>1, <3>1, <3>2 DEF PlayedOf, EndOf, Moved, SameCourse
  <2> QED BY <2>1, <2>2
<1>8. FollowOf(h, want)
  <2>1. CASE p = target
    BY <1>1, <1>4, <2>1 DEF PlayedOf, FollowOf, Moved, SameCourse
  <2>2. CASE p # target
    <3>1. h.reactions[target] = g.reactions[target]
      BY <1>0, <1>1, <2>2 DEF Moved
    <3> QED BY <1>1, <3>1 DEF PlayedOf, FollowOf, Moved, SameCourse
  <2> QED BY <2>1, <2>2
<1> QED BY <1>1, <1>2, <1>3, <1>6, <1>7, <1>8 DEF PlayedOf, Moved, SameCourse, Playing
-----------------------------------------------------------------------------
LEMMA FreshPlays ==
  ASSUME RequestInv, NEW in
  PROVE  PlayedOf(Fresh, want, prefix_steps, in) /\ Quiet(Fresh)
<1>1. /\ Acting \subseteq DOMAIN Fresh /\ Fresh.reactions = Silent /\ Fresh.cans = NoCans
      /\ Fresh.turn = Oya /\ Fresh.is_first /\ Fresh.first = None /\ Fresh.followed = None
      /\ ~Fresh.pending_riichi /\ ~Fresh.pending_meld /\ ~Fresh.ended /\ ~Fresh.error
      /\ Fresh.prefix_completed <=> prefix_steps = <<>>
  BY DEF Fresh, Acting
<1> HIDE DEF Fresh
<1>2. /\ DOMAIN Silent = Players /\ target \in Players
      /\ \A p \in Players : Silent[p] = None /\ NoCans[p] = {}
      /\ NoCans \in [Players -> SUBSET Actions]
  BY PlayersFacts DEF Silent, NoCans
<1>3. TableOf(Fresh)
  BY <1>1, <1>2 DEF TableOf
<1>4. FirstOf(Fresh, want, prefix_steps, in)
  BY <1>1, <1>2 DEF FirstOf, Oya
<1>5. EndOf(Fresh)
  BY <1>1, <1>2, WordsDiffer DEF EndOf
<1>6. FollowOf(Fresh, want)
  BY <1>1 DEF FollowOf
<1> QED BY <1>1, <1>2, <1>3, <1>4, <1>5, <1>6 DEF PlayedOf, Quiet

LEMMA InitFirst == Init => FirstInv
<1> SUFFICES ASSUME Init PROVE FirstInv
  OBVIOUS
<1>1. RequestInv
  BY DEF Init, RequestInv
<1>2. game = [gi \in Games |-> Fresh]
  BY DEF Init
<1>3. PlayedOf(Fresh, want, prefix_steps, pass) /\ Quiet(Fresh)
  BY <1>1, FreshPlays
<1> HIDE DEF Fresh
<1>4. PlayedInv
  BY <1>2, <1>3 DEF PlayedInv
<1>5. RoundInv
  BY <1>2, <1>3 DEF Init, RoundInv
<1>6. SeatsInv
  BY DEF Init, SeatsInv
<1> QED BY <1>1, <1>4, <1>5, <1>6 DEF FirstInv

(* A step of one game for one of its players, by the scan or by the engine. *)
SeatStep(s, h) ==
  /\ game' = [game EXCEPT ![s[1]] = h]
  /\ PlayedOf(h, want, prefix_steps, pass) /\ Moved(game[s[1]], h, s[2], prefix_steps)

LEMMA SeatStepKeeps ==
  ASSUME FirstInv, WeighInv, NEW s \in Games \X Players, NEW h, SeatStep(s, h)
  PROVE  /\ \A gi \in Games : PlayedOf(game'[gi], want, prefix_steps, pass)
         /\ \A r \in Games \X Players : r # s =>
              /\ ScanOf(game[r[1]], r[2]) => ScanOf(game'[r[1]], r[2])
              /\ AskOf(game[r[1]], r[2], prefix_steps)
                   /\ RowOf(game[r[1]], r[2], prefix_steps, pass)
                   => AskOf(game'[r[1]], r[2], prefix_steps)
<1>1. game' = [game EXCEPT ![s[1]] = h] /\ DOMAIN game = Games /\ s[1] \in Games
      /\ s[2] \in Players
  BY DEF SeatStep, WeighInv, LikesInv
<1>2. \A gi \in Games : game'[gi] = IF gi = s[1] THEN h ELSE game[gi]
  BY <1>1
<1>3. \A gi \in Games : PlayedOf(game'[gi], want, prefix_steps, pass)
  BY <1>2 DEF SeatStep, FirstInv, PlayedInv
<1>4. ASSUME NEW r \in Games \X Players, r # s
      PROVE  /\ ScanOf(game[r[1]], r[2]) => ScanOf(game'[r[1]], r[2])
             /\ AskOf(game[r[1]], r[2], prefix_steps)
                  /\ RowOf(game[r[1]], r[2], prefix_steps, pass)
                  => AskOf(game'[r[1]], r[2], prefix_steps)
  <2>1. CASE r[1] # s[1]
    <3>1. game'[r[1]] = game[r[1]]
      BY <1>2, <2>1
    <3> QED BY <3>1
  <2>2. CASE r[1] = s[1]
    <3>1. r[2] # s[2] /\ r[2] \in Players
      BY <1>4, <2>2
    <3>2. game'[r[1]] = h
      BY <1>2, <2>2
    <3>3. Moved(game[r[1]], h, s[2], prefix_steps)
      BY <2>2 DEF SeatStep
    <3>4. LikesOf(game[r[1]], prefix_steps) /\ prefix_steps \in Seq(Steps)
      BY <1>1, <2>2 DEF WeighInv, LikesInv
    <3> QED BY <1>1, <3>1, <3>2, <3>3, <3>4, OthersStay
  <2> QED BY <2>1, <2>2
<1> QED BY <1>3, <1>4

(* In the round everybody is heard who was, but for the player of the step,
   who is to be heard by himself. *)
LEMMA SeatStepHeard ==
  ASSUME FirstInv, WeighInv, NEW s \in Games \X Players, NEW h, SeatStep(s, h),
         phase = "round", unpolled = Games, phase' = phase, unpolled' = unpolled, pass' = pass,
         want' = want,
         \A r \in todo : r # s => r \in todo',
         \A k \in DOMAIN batch_map : batch_map[k] # s =>
           \E j \in DOMAIN batch_map' : batch_map'[j] = batch_map[k],
         pass = "main" /\ Playing(h, want) =>
           /\ game[s[1]].cans[s[2]] # {} =>
                \/ \E j \in DOMAIN batch_map' : batch_map'[j] = s
                \/ h.reactions[s[2]] # None
           /\ \/ Playing(game[s[1]], want)
              \/ \A q \in Players \ {s[2]} : game[s[1]].cans[q] = {}
  PROVE  RoundInv'
<1>1. game' = [game EXCEPT ![s[1]] = h] /\ DOMAIN game = Games /\ s[1] \in Games
      /\ s[2] \in Players /\ s = <<s[1], s[2]>>
  BY DEF SeatStep, WeighInv, LikesInv
<1>2. \A gi \in Games : game'[gi] = IF gi = s[1] THEN h ELSE game[gi]
  BY <1>1
<1>3. /\ h.cans = game[s[1]].cans
      /\ \A q \in Players \ {s[2]} : h.reactions[q] = game[s[1]].reactions[q]
  BY DEF SeatStep, Moved
<1>4. ASSUME NEW gi \in Games, pass = "main", Playing(game'[gi], want), NEW p \in Players,
             game'[gi].cans[p] # {}
      PROVE  \/ <<gi, p>> \in todo'
             \/ \E k \in DOMAIN batch_map' : batch_map'[k] = <<gi, p>>
             \/ game'[gi].reactions[p] # None
  <2>1. CASE <<gi, p>> = s
    <3>1. gi = s[1] /\ p = s[2]
      BY <2>1
    <3>2. game'[gi] = h
      BY <1>2, <3>1
    <3> QED BY <1>3, <1>4, <2>1, <3>1, <3>2
  <2>2. CASE <<gi, p>> # s
    <3>1. Playing(game[gi], want) /\ game[gi].cans[p] # {}
          /\ game'[gi].reactions[p] = game[gi].reactions[p]
      <4>1. CASE gi = s[1]
        <5>1. p # s[2] /\ game'[gi] = h
          BY <1>1, <1>2, <2>2, <4>1
        <5>2. game[gi].cans[p] # {} /\ h.reactions[p] = game[gi].reactions[p]
          BY <1>3, <1>4, <4>1, <5>1
        <5> QED BY <1>4, <4>1, <5>1, <5>2
      <4>2. CASE gi # s[1]
        <5>1. game'[gi] = game[gi]
          BY <1>2, <4>2
        <5> QED BY <1>4, <5>1
      <4> QED BY <4>1, <4>2
    <3>2. Heard(gi)
      BY <1>4, <3>1 DEF FirstInv, RoundInv
    <3>3. \/ <<gi, p>> \in todo
          \/ \E k \in DOMAIN batch_map : batch_map[k] = <<gi, p>>
          \/ game[gi].reactions[p] # None
      BY <3>1, <3>2 DEF Heard
    <3> QED BY <2>2, <3>1, <3>3
  <2> QED BY <2>1, <2>2
<1>5. \A gi \in Games : pass = "main" /\ Playing(game'[gi], want) => Heard(gi)'
  BY <1>4 DEF Heard
<1> QED BY <1>5 DEF FirstInv, RoundInv
LEMMA BeginFirst == FirstInv /\ ReturnInv /\ Begin => FirstInv'
<1> SUFFICES ASSUME FirstInv, ReturnInv, Begin PROVE FirstInv'
  OBVIOUS
<1>1. /\ want' = want /\ prefix_steps' = prefix_steps /\ pass' = pass /\ game' = game
      /\ batch_map' = <<>> /\ phase' = "round" /\ unpolled' = Games /\ phase # "round"
      /\ todo' \subseteq Games \X Players
      /\ \A s \in todo' : ~game[s[1]].ended
      /\ \A gi \in Games, p \in Players :
           pass = "main" /\ ~game[gi].ended /\ game[gi].cans[p] # {} => <<gi, p>> \in todo'
  BY DEF Begin, ReturnInv, LoopInv, request
<1>2. \A gi \in Games : Quiet(game[gi])
  BY <1>1 DEF FirstInv, RoundInv
<1>3. RequestInv' /\ PlayedInv'
  BY <1>1 DEF FirstInv, RequestInv, PlayedInv
<1>4. SeatsInv'
  BY <1>1, <1>2 DEF SeatsInv, ScanOf, Quiet
<1>5. \A gi \in Games : pass = "main" /\ Playing(game[gi], want) => Heard(gi)'
  BY <1>1 DEF Heard, Playing
<1>6. RoundInv'
  BY <1>1, <1>5 DEF FirstInv, RoundInv
<1> QED BY <1>3, <1>4, <1>6 DEF FirstInv

LEMMA ScanFirstInv == FirstInv /\ ReturnInv /\ WeighInv /\ Scan => FirstInv'
<1> SUFFICES ASSUME FirstInv, ReturnInv, WeighInv, Scan PROVE FirstInv'
  OBVIOUS
<1>1. PICK s \in todo :
        /\ game' = [game EXCEPT ![s[1]] = ScanPlayer(game[s[1]], s[2]).g]
        /\ batch_map' = IF ScanPlayer(game[s[1]], s[2]).row
                         THEN Append(batch_map, s) ELSE batch_map
        /\ todo' = todo \ {s}
  BY DEF Scan
<1>2. /\ want' = want /\ prefix_steps' = prefix_steps /\ pass' = pass
      /\ phase' = phase /\ unpolled' = unpolled
  BY DEF Scan, request
<1>3. /\ todo \subseteq Games \X Players /\ batch_map \in Seq(Games \X Players)
      /\ s \in Games \X Players /\ s[1] \in Games /\ s[2] \in Players
      /\ phase = "round" /\ unpolled = Games
  BY <1>1 DEF FirstInv, RoundInv, ReturnInv, LoopInv
<1> DEFINE scanned == ScanPlayer(game[s[1]], s[2])
           h == scanned.g
<1>4. /\ PlayedOf(game[s[1]], want, prefix_steps, pass) /\ want \in Want
      /\ pass \in {"prefix", "main"} /\ prefix_steps \in Seq(Steps)
      /\ LikesOf(game[s[1]], prefix_steps) /\ ScanOf(game[s[1]], s[2])
  BY <1>1, <1>3 DEF FirstInv, PlayedInv, RequestInv, RoundInv, SeatsInv, WeighInv, LikesInv
<1>5. /\ PlayedOf(h, want, prefix_steps, pass) /\ Moved(game[s[1]], h, s[2], prefix_steps)
      /\ scanned.row => AskOf(h, s[2], prefix_steps)
      /\ pass = "main" /\ Playing(h, want) /\ game[s[1]].cans[s[2]] # {} =>
           scanned.row \/ h.reactions[s[2]] # None
      /\ pass = "main" /\ Playing(h, want) =>
           Playing(game[s[1]], want) \/ \A q \in Players \ {s[2]} : game[s[1]].cans[q] = {}
  BY <1>3, <1>4, ScanPlays
<1>6. /\ game' = [game EXCEPT ![s[1]] = h]
      /\ batch_map' = IF scanned.row THEN Append(batch_map, s) ELSE batch_map
  BY <1>1
<1> HIDE DEF h, scanned
<1>7. SeatStep(s, h)
  BY <1>5, <1>6 DEF SeatStep
<1>8. /\ \A gi \in Games : PlayedOf(game'[gi], want, prefix_steps, pass)
      /\ \A r \in Games \X Players : r # s =>
           /\ ScanOf(game[r[1]], r[2]) => ScanOf(game'[r[1]], r[2])
           /\ AskOf(game[r[1]], r[2], prefix_steps)
                /\ RowOf(game[r[1]], r[2], prefix_steps, pass)
                => AskOf(game'[r[1]], r[2], prefix_steps)
  BY <1>3, <1>7, SeatStepKeeps
<1>9. game'[s[1]] = h
  BY <1>3, <1>6 DEF WeighInv, LikesInv
<1>10. RequestInv' /\ PlayedInv'
  BY <1>2, <1>8 DEF FirstInv, RequestInv, PlayedInv
<1>11. /\ \A k \in DOMAIN batch_map :
            k \in DOMAIN batch_map' /\ batch_map'[k] = batch_map[k]
       /\ scanned.row => \E k \in DOMAIN batch_map' : batch_map'[k] = s
       /\ \A k \in DOMAIN batch_map' :
            \/ k \in DOMAIN batch_map /\ batch_map'[k] = batch_map[k]
            \/ scanned.row /\ batch_map'[k] = s
  <2>1. CASE scanned.row
    <3>1. batch_map' = Append(batch_map, s)
      BY <1>6, <2>1
    <3>2. /\ DOMAIN batch_map' = 1..(Len(batch_map) + 1)
          /\ DOMAIN batch_map = 1..Len(batch_map) /\ Len(batch_map) \in Nat
          /\ batch_map'[Len(batch_map) + 1] = s
          /\ \A k \in DOMAIN batch_map : batch_map'[k] = batch_map[k]
      BY <1>3, <3>1, AppendProperties
    <3> QED BY <2>1, <3>2
  <2>2. CASE ~scanned.row
    BY <1>6, <2>2
  <2> QED BY <2>1, <2>2
<1>12. SeatsInv'
  <2>1. \A r \in todo' : ScanOf(game'[r[1]], r[2])
    BY <1>1, <1>3, <1>8 DEF FirstInv, SeatsInv
  <2>2. ASSUME NEW k \in DOMAIN batch_map'
        PROVE  AskOf(game'[batch_map'[k][1]], batch_map'[k][2], prefix_steps)
    <3>1. CASE scanned.row /\ batch_map'[k] = s
      BY <1>5, <1>9, <3>1
    <3>2. CASE k \in DOMAIN batch_map /\ batch_map'[k] = batch_map[k]
      <4>1. batch_map[k] \in Games \X Players
        BY <1>3, <3>2
      <4>2. batch_map[k] # s /\ RowOf(game[batch_map[k][1]], batch_map[k][2], prefix_steps, pass)
        BY <1>1, <3>2 DEF WeighInv, LikesInv, RowsInv
      <4>3. AskOf(game[batch_map[k][1]], batch_map[k][2], prefix_steps)
        BY <3>2 DEF FirstInv, SeatsInv
      <4> QED BY <1>8, <3>2, <4>1, <4>2, <4>3
    <3> QED BY <1>11, <2>2, <3>1, <3>2
  <2> QED BY <1>2, <2>1, <2>2 DEF SeatsInv
<1>13. RoundInv'
  <2>1. \A r \in todo : r # s => r \in todo'
    BY <1>1
  <2>2. \A k \in DOMAIN batch_map : batch_map[k] # s =>
          \E j \in DOMAIN batch_map' : batch_map'[j] = batch_map[k]
    BY <1>11
  <2>3. pass = "main" /\ Playing(h, want) =>
          /\ game[s[1]].cans[s[2]] # {} =>
               \/ \E j \in DOMAIN batch_map' : batch_map'[j] = s
               \/ h.reactions[s[2]] # None
          /\ \/ Playing(game[s[1]], want)
             \/ \A q \in Players \ {s[2]} : game[s[1]].cans[q] = {}
    BY <1>5, <1>11
  <2> QED BY <1>2, <1>3, <1>7, <2>1, <2>2, <2>3, SeatStepHeard
<1> QED BY <1>10, <1>12, <1>13 DEF FirstInv

LEMMA AnswerFirst == FirstInv /\ ReturnInv /\ WeighInv /\ Answer => FirstInv'
<1> SUFFICES ASSUME FirstInv, ReturnInv, WeighInv, Answer PROVE FirstInv'
  OBVIOUS
<1> DEFINE s == Head(batch_map)
<1>1. /\ want' = want /\ prefix_steps' = prefix_steps /\ pass' = pass
      /\ phase' = phase /\ unpolled' = unpolled /\ todo' = todo /\ todo = {}
      /\ batch_map # <<>> /\ batch_map' = Tail(batch_map)
  BY DEF Answer, request
<1>2. /\ batch_map \in Seq(Games \X Players) /\ s = batch_map[1] /\ 1 \in DOMAIN batch_map
      /\ s \in Games \X Players /\ s[1] \in Games /\ s[2] \in Players
  BY <1>1 DEF ReturnInv, LoopInv
<1>3. phase = "round" /\ unpolled = Games
  BY <1>1 DEF FirstInv, RoundInv, ReturnInv, LoopInv
<1>4. /\ PlayedOf(game[s[1]], want, prefix_steps, pass) /\ want \in Want
      /\ prefix_steps \in Seq(Steps) /\ LikesOf(game[s[1]], prefix_steps)
      /\ AskOf(game[s[1]], s[2], prefix_steps)
      /\ RowOf(game[s[1]], s[2], prefix_steps, pass)
  BY <1>2 DEF FirstInv, PlayedInv, RequestInv, SeatsInv, WeighInv, LikesInv, RowsInv
<1>5. PICK h : /\ game' = [game EXCEPT ![s[1]] = h]
               /\ PlayedOf(h, want, prefix_steps, pass)
               /\ Moved(game[s[1]], h, s[2], prefix_steps)
               /\ Playing(h, want) => Playing(game[s[1]], want) /\ h.reactions[s[2]] # None
  <2>1. CASE InPrefix(game[s[1]])
    <3> DEFINE h == Weigh(game[s[1]], s[2])
    <3>1. game' = [game EXCEPT ![s[1]] = h]
      BY <2>1 DEF Answer, s
    <3>2. PlayedOf(h, want, prefix_steps, pass) /\ Moved(game[s[1]], h, s[2], prefix_steps)
          /\ ~Playing(h, want)
      BY <1>2, <1>4, <2>1, WeighPlays
    <3> QED BY <3>1, <3>2
  <2>2. CASE ~InPrefix(game[s[1]])
    <3>1. PICK a \in Legal(game[s[1]], s[2]) : game' = [game EXCEPT ![s[1]].reactions[s[2]] = a]
      BY <2>2 DEF Answer, s
    <3> HIDE DEF s
    <3> DEFINE h == Say(game[s[1]], s[2], a).g
    <3>2. game' = [game EXCEPT ![s[1]] = h]
      BY <3>1 DEF Say
    <3>3. /\ PlayedOf(h, want, prefix_steps, pass) /\ Moved(game[s[1]], h, s[2], prefix_steps)
          /\ h.reactions[s[2]] # None /\ (Playing(h, want) => Playing(game[s[1]], want))
      BY <1>2, <1>4, <2>2, EnginePlays
    <3> QED BY <3>2, <3>3
  <2> QED BY <2>1, <2>2
<1> HIDE DEF s
<1>6. SeatStep(s, h)
  BY <1>5 DEF SeatStep
<1>7. /\ \A gi \in Games : PlayedOf(game'[gi], want, prefix_steps, pass)
      /\ \A r \in Games \X Players : r # s =>
           /\ ScanOf(game[r[1]], r[2]) => ScanOf(game'[r[1]], r[2])
           /\ AskOf(game[r[1]], r[2], prefix_steps)
                /\ RowOf(game[r[1]], r[2], prefix_steps, pass)
                => AskOf(game'[r[1]], r[2], prefix_steps)
  BY <1>2, <1>6, SeatStepKeeps
<1>8. RequestInv' /\ PlayedInv'
  BY <1>1, <1>7 DEF FirstInv, RequestInv, PlayedInv
<1>9. /\ \A k \in DOMAIN batch_map' :
           k + 1 \in DOMAIN batch_map /\ batch_map'[k] = batch_map[k + 1] /\ k + 1 # 1
      /\ \A k \in DOMAIN batch_map : k # 1 =>
           k - 1 \in DOMAIN batch_map' /\ batch_map'[k - 1] = batch_map[k]
  BY <1>1, <1>2
<1>10. SeatsInv'
  <2>1. ASSUME NEW k \in DOMAIN batch_map'
        PROVE  AskOf(game'[batch_map'[k][1]], batch_map'[k][2], prefix_steps)
    <3> DEFINE m == k + 1
    <3>1. m \in DOMAIN batch_map /\ batch_map'[k] = batch_map[m] /\ m # 1
      BY <1>9
    <3> HIDE DEF m
    <3>2. batch_map[m] \in Games \X Players
      BY <1>2, <3>1
    <3>3. batch_map[m] # s
      BY <1>2, <3>1 DEF WeighInv, LikesInv, RowsInv
    <3>4. AskOf(game[batch_map[m][1]], batch_map[m][2], prefix_steps)
          /\ RowOf(game[batch_map[m][1]], batch_map[m][2], prefix_steps, pass)
      BY <3>1 DEF FirstInv, SeatsInv, WeighInv, LikesInv, RowsInv
    <3> QED BY <1>7, <3>1, <3>2, <3>3, <3>4
  <2> QED BY <1>1, <2>1 DEF SeatsInv
<1>11. RoundInv'
  <2>1. \A k \in DOMAIN batch_map : batch_map[k] # s =>
          \E j \in DOMAIN batch_map' : batch_map'[j] = batch_map[k]
    BY <1>2, <1>9
  <2>2. pass = "main" /\ Playing(h, want) =>
          /\ game[s[1]].cans[s[2]] # {} =>
               \/ \E j \in DOMAIN batch_map' : batch_map'[j] = s
               \/ h.reactions[s[2]] # None
          /\ \/ Playing(game[s[1]], want)
             \/ \A q \in Players \ {s[2]} : game[s[1]].cans[q] = {}
    BY <1>5
  <2>3. \A r \in todo : r # s => r \in todo'
    BY <1>1
  <2> QED BY <1>1, <1>2, <1>3, <1>6, <2>1, <2>2, <2>3, SeatStepHeard
<1> QED BY <1>8, <1>10, <1>11 DEF FirstInv
LEMMA AdvanceFirst == FirstInv /\ ReturnInv /\ Advance => FirstInv'
<1> SUFFICES ASSUME FirstInv, ReturnInv, Advance PROVE FirstInv'
  OBVIOUS
<1> DEFINE gi == Least(unpolled)
<1>1. /\ want' = want /\ prefix_steps' = prefix_steps /\ pass' = pass
      /\ todo' = {} /\ todo = {} /\ batch_map' = <<>> /\ batch_map = <<>>
      /\ phase = "round" /\ unpolled' = unpolled \ {gi}
      /\ phase' = "round" <=> unpolled' # {}
  BY DEF Advance, request
<1>2. PICK h \in advance_game(game[gi]) : game' = [game EXCEPT ![gi] = h]
  BY DEF Advance
<1>3. DOMAIN game = Games
  BY DEF ReturnInv, GamesInv
<1>4. (gi \in unpolled /\ unpolled \subseteq Games) \/ Games = {}
  <2>1. Games \subseteq Nat
    <3> DEFINE n == Cardinality(Games)
    <3>1. Games = 1..n
      BY BatchAssumption
    <3> HIDE DEF n
    <3> QED BY <3>1
  <2>2. unpolled \in SUBSET Nat
    BY <2>1 DEF FirstInv, RoundInv
  <2> QED BY <1>1, <2>2, LeastIsMember DEF FirstInv, RoundInv
<1> HIDE DEF gi
<1>5. RequestInv' /\ SeatsInv'
  BY <1>1 DEF FirstInv, RequestInv, SeatsInv
<1>6. CASE Games = {}
  BY <1>1, <1>5, <1>6 DEF FirstInv, PlayedInv, RoundInv
<1>7. CASE gi \in unpolled /\ unpolled \subseteq Games
  <2>1. PlayedOf(game[gi], want, prefix_steps, pass) /\ want # None
    BY <1>7, WordsDiffer DEF FirstInv, PlayedInv, RequestInv
  <2>2. ASSUME ~game[gi].ended, pass = "main", game[gi].prefix_completed, game[gi].is_first
        PROVE  game[gi].cans[target] = {}
    <3>1. prefix_steps = <<>> /\ game[gi].reactions[target] = None
      BY <2>1, <2>2 DEF PlayedOf, FirstOf
    <3>2. Playing(game[gi], want)
      BY <2>2, <3>1 DEF Playing, FirstInv, RequestInv
    <3>3. Heard(gi)
      BY <1>1, <1>7, <2>2, <3>2 DEF FirstInv, RoundInv
    <3> QED BY <1>1, <3>1, <3>3, PlayersFacts DEF Heard
  <2>3. PlayedOf(h, want, prefix_steps, pass) /\ Quiet(h)
    <3>1. CASE game[gi].ended
      BY <1>2, <2>1, <3>1 DEF advance_game, Quiet
    <3>2. CASE ~game[gi].ended
      BY <1>2, <2>1, <2>2, <3>2, PollPlays
    <3> QED BY <3>1, <3>2
  <2>4. \A m \in Games : game'[m] = IF m = gi THEN h ELSE game[m]
    BY <1>2, <1>3
  <2>5. PlayedInv'
    BY <1>1, <2>3, <2>4 DEF FirstInv, PlayedInv
  <2>6. ASSUME NEW m \in Games
        PROVE  IF phase' = "round" /\ m \in unpolled'
               THEN pass' = "main" /\ Playing(game'[m], want') => Heard(m)'
               ELSE Quiet(game'[m])
    <3>1. CASE m = gi
      BY <1>1, <2>3, <2>4, <3>1
    <3>2. CASE m # gi
      <4>1. game'[m] = game[m] /\ (Heard(m)' <=> Heard(m))
        BY <1>1, <2>4, <3>2 DEF Heard
      <4>2. phase' = "round" /\ m \in unpolled' <=> m \in unpolled
        BY <1>1, <3>2
      <4> QED BY <1>1, <4>1, <4>2 DEF FirstInv, RoundInv
    <3> QED BY <3>1, <3>2
  <2>7. RoundInv'
    BY <1>1, <2>6 DEF FirstInv, RoundInv
  <2> QED BY <1>5, <2>5, <2>7 DEF FirstInv
<1> QED BY <1>4, <1>6, <1>7

LEMMA CollectFirst == FirstInv /\ ReturnInv /\ Collect => FirstInv'
<1> SUFFICES ASSUME FirstInv, ReturnInv, Collect PROVE FirstInv'
  OBVIOUS
<1>1. /\ want' = want /\ prefix_steps' = prefix_steps /\ pass' = pass /\ unpolled' = unpolled
      /\ todo' = {} /\ batch_map' = <<>> /\ phase = "collect" /\ phase' = "collect"
  BY DEF Collect, request, ReturnInv, LoopInv
<1>2. PICK gi \in Games : game' = [game EXCEPT ![gi].collected = TRUE]
  BY DEF Collect, Finished
<1> DEFINE h == [game[gi] EXCEPT !.collected = TRUE]
<1>3. \A m \in Games : game'[m] = IF m = gi THEN h ELSE game[m]
  BY <1>2 DEF ReturnInv, GamesInv
<1>4. \A m \in Games : PlayedOf(game[m], want, prefix_steps, pass) /\ Quiet(game[m])
  BY <1>1 DEF FirstInv, PlayedInv, RoundInv
<1>5. /\ Acting \subseteq DOMAIN h /\ h.reactions = game[gi].reactions
      /\ h.cans = game[gi].cans /\ h.turn = game[gi].turn /\ h.left = game[gi].left
      /\ h.first = game[gi].first /\ h.did = game[gi].did
      /\ SameCourse(game[gi], h)
  BY <1>4 DEF PlayedOf, Acting, SameCourse
<1> HIDE DEF h
<1>6. PlayedOf(h, want, prefix_steps, pass) /\ Quiet(h)
  <2>1. TableOf(h) /\ FollowOf(h, want)
    BY <1>4, <1>5 DEF PlayedOf, TableOf, FollowOf, SameCourse
  <2>2. FirstOf(h, want, prefix_steps, pass) /\ EndOf(h)
    BY <1>4, <1>5 DEF PlayedOf, FirstOf, EndOf, SameCourse
  <2> QED BY <1>4, <1>5, <2>1, <2>2 DEF PlayedOf, Quiet, SameCourse
<1> QED BY <1>1, <1>3, <1>4, <1>6
        DEF FirstInv, RequestInv, RoundInv, SeatsInv, PlayedInv

(* Until it is tried, the first action is the only one that is waited for. *)
LEMMA StepFirst == FirstInv /\ ReturnInv /\ WeighInv /\ [Next]_vars => FirstInv'
<1> SUFFICES ASSUME FirstInv, ReturnInv, WeighInv, [Next]_vars PROVE FirstInv'
  OBVIOUS
<1>1. CASE Begin
  BY <1>1, BeginFirst
<1>2. CASE Scan
  BY <1>2, ScanFirstInv
<1>3. CASE Answer
  BY <1>3, AnswerFirst
<1>4. CASE Advance
  BY <1>4, AdvanceFirst
<1>5. CASE Collect
  BY <1>5, CollectFirst
<1>6. CASE EndRound
  <2>1. /\ want' = want /\ prefix_steps' = prefix_steps /\ pass' = pass /\ game' = game
        /\ unpolled' = unpolled /\ todo' = {} /\ batch_map' = <<>>
        /\ phase = "collect" /\ phase' = "begin"
    BY <1>6 DEF EndRound, request, ReturnInv, LoopInv
  <2> QED BY <2>1 DEF FirstInv, RequestInv, RoundInv, SeatsInv, PlayedInv
<1>7. CASE Rebuild
  <2>1. /\ want' = want /\ prefix_steps' = prefix_steps /\ pass' = "main"
        /\ game' = [gi \in Games |-> Fresh]
        /\ unpolled' = unpolled /\ todo' = {} /\ batch_map' = <<>> /\ phase' = "begin"
    BY <1>7 DEF Rebuild, request, ReturnInv, LoopInv
  <2>2. PlayedOf(Fresh, want, prefix_steps, "main") /\ Quiet(Fresh)
    BY FreshPlays DEF FirstInv
  <2> HIDE DEF Fresh
  <2> QED BY <2>1, <2>2 DEF FirstInv, RequestInv, RoundInv, SeatsInv, PlayedInv
<1>8. CASE UNCHANGED vars
  BY <1>8 DEF vars, request, FirstInv, RequestInv, RoundInv, SeatsInv, PlayedInv, Heard
<1> QED BY <1>1, <1>2, <1>3, <1>4, <1>5, <1>6, <1>7, <1>8 DEF Next

(* The rounds of a batch are played from the decision the request names: its
   first action is the target's first, everybody who can act is asked before
   a board is polled, and the discard that goes with a pon follows it. *)
THEOREM RequestComesFirst == Spec => []FirstActionIsRequested
<1>1. FirstInv => FirstActionIsRequested
  <2> SUFFICES ASSUME FirstInv PROVE FirstActionIsRequested
    OBVIOUS
  <2>1. RequestIsFirst
    BY DEF RequestIsFirst, FirstInv, PlayedInv, PlayedOf, FirstOf, EndOf
  <2>2. FollowUpFollowsTheCall
    BY DEF FollowUpFollowsTheCall, FirstInv, PlayedInv, PlayedOf, FollowOf
  <2>3. EveryoneIsAsked
    <3> SUFFICES ASSUME Polling, NEW gi \in Games, Playing(game[gi], want)
                 PROVE  Answered(game[gi])
      BY DEF EveryoneIsAsked, Playing
    <3>1. Heard(gi)
      BY DEF Polling, FirstInv, RoundInv
    <3> QED BY <3>1 DEF Heard, Answered, Polling
  <2> QED BY <2>1, <2>2, <2>3 DEF FirstActionIsRequested
<1> QED BY <1>1, InitReturns, StepReturns, InitWeighs, StepWeighs, InitFirst, StepFirst,
           PTL DEF Spec
=============================================================================
