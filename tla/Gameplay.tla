------------------------------ MODULE Gameplay ------------------------------
(***************************************************************************)
(* The training records of a player, read back from a game's log           *)
(* (dataset/gameplay.rs, dataset/invisible.rs).  A log says what happened, *)
(* not what the player was asked: the loader replays it, and where the     *)
(* state offers the player a decision it infers the one that was taken     *)
(* from a window of four events.  Here the log is written by a table that  *)
(* asks the player and remembers the answer; the events come in the order  *)
(* in which Board::step logs them.                                         *)
(***************************************************************************)
EXTENDS Integers, Sequences, FiniteSets, TLC

CONSTANTS
  OwnOffers,       \* what a draw of the player's may offer (ActionCandidate)
  CallOffers,      \* what a discard of somebody else's may
  AlwaysKan,       \* always_include_kan_select
  Discards,        \* the tiles that are discarded
  MaxLog, MaxKyoku \* bounds

Pov == 0
Seats == 0 .. 3

(* An offer: the kinds of action, and the tiles a kan of each kind may take. *)
NoOffer == [acts |-> {}, ankans |-> {}, kakans |-> {}]
Discard == [NoOffer EXCEPT !.acts = {"dahai"}]

VARIABLES
  log,             \* the events; `cans' is what the player's state offers after one
  chosen,          \* the answers, with the event they answered and the tiles drawn by then
  phase,           \* "draw", "act", "react", "riichi", "between", "over"
  turn,            \* whose turn it is
  riichi,          \* riichi_to_be_accepted
  doraAtDiscard, doraAtTsumo, rinshan,   \* of Board
  yama, dead,      \* tiles drawn in this kyoku from the wall and from the dead wall
  kyoku

vars == <<log, chosen, phase, turn, riichi, doraAtDiscard, doraAtTsumo, rinshan, yama, dead, kyoku>>
flags == <<riichi, doraAtDiscard, doraAtTsumo, rinshan>>

-----------------------------------------------------------------------------
(* The table *)

Ev(type, actor) == [type |-> type, actor |-> actor, tile |-> 0, cans |-> NoOffer]
With(ev, offer) == [ev EXCEPT !.cans = offer]
If(p, ev) == IF p THEN <<ev>> ELSE <<>>
Accepted == If(riichi, Ev("reach_accepted", 9))
Dora == Ev("dora", 9)
LogAnd(events) == log' = log \o events
Room == Len(log) < MaxLog

Init ==
  /\ log = <<Ev("start_game", 9)>> /\ chosen = <<>> /\ phase = "between" /\ turn = 0
  /\ riichi = FALSE /\ doraAtDiscard = FALSE /\ doraAtTsumo = FALSE /\ rinshan = FALSE
  /\ yama = 0 /\ dead = 0 /\ kyoku = 0

StartKyoku(p) ==
  /\ phase = "between" /\ kyoku < MaxKyoku /\ Room
  /\ LogAnd(<<Ev("start_kyoku", p)>>) /\ phase' = "draw" /\ turn' = p
  /\ riichi' = FALSE /\ doraAtDiscard' = FALSE /\ doraAtTsumo' = FALSE /\ rinshan' = FALSE
  /\ yama' = 0 /\ dead' = 0 /\ kyoku' = kyoku + 1
  /\ UNCHANGED chosen

Draw(offer) ==
  /\ phase = "draw" /\ Room
  /\ turn = Pov \/ offer = NoOffer
  /\ LogAnd(Accepted \o If(doraAtTsumo, Dora) \o <<With(Ev("tsumo", turn), offer)>>)
  /\ phase' = "act" /\ riichi' = FALSE /\ doraAtTsumo' = FALSE /\ rinshan' = FALSE
  /\ IF rinshan THEN dead' = dead + 1 /\ UNCHANGED yama ELSE yama' = yama + 1 /\ UNCHANGED dead
  /\ UNCHANGED <<chosen, turn, doraAtDiscard, kyoku>>

(* The player, if it is its turn, is asked, and answers `act' (with `tile'). *)
Offer == log[Len(log)].cans
Answers(act, tile) ==
  IF turn = Pov
  THEN /\ act \in Offer.acts
       /\ chosen' = Append(chosen, [at |-> Len(log), act |-> act, tile |-> tile,
                                    yama |-> yama, dead |-> dead])
  ELSE chosen' = chosen

Dahai(tile, offer) ==
  /\ phase \in {"act", "riichi"} /\ Answers("dahai", tile)
  /\ turn # Pov \/ offer = NoOffer
  /\ LogAnd(If(doraAtDiscard, Dora) \o <<[With(Ev("dahai", turn), offer) EXCEPT !.tile = tile]>>)
  /\ doraAtDiscard' = FALSE /\ phase' = "react" /\ riichi' = (phase = "riichi")
  /\ UNCHANGED <<turn, doraAtTsumo, rinshan, yama, dead, kyoku>>
Reach ==
  /\ phase = "act" /\ Room /\ Answers("reach", 0)
  /\ LogAnd(<<With(Ev("reach", turn), IF turn = Pov THEN Discard ELSE NoOffer)>>)
  /\ phase' = "riichi"
  /\ UNCHANGED <<turn, flags, yama, dead, kyoku>>
Ankan(tile) ==
  /\ phase = "act" /\ Room /\ Answers("ankan", tile) /\ (turn = Pov => tile \in Offer.ankans)
  /\ LogAnd(If(doraAtDiscard, Dora)
              \o <<[Ev("ankan", turn) EXCEPT !.tile = tile], Dora>>)
  /\ doraAtDiscard' = FALSE /\ rinshan' = TRUE /\ phase' = "draw"
  /\ UNCHANGED <<turn, riichi, doraAtTsumo, yama, dead, kyoku>>
(* A kakan may be robbed. *)
Kakan(tile, offer) ==
  /\ phase = "act" /\ Room /\ Answers("kakan", tile) /\ (turn = Pov => tile \in Offer.kakans)
  /\ IF turn = Pov THEN offer = NoOffer ELSE offer.acts \subseteq {"ron"}
  /\ LogAnd(<<[With(Ev("kakan", turn), offer) EXCEPT !.tile = tile]>>)
  /\ doraAtTsumo' = doraAtDiscard /\ doraAtDiscard' = TRUE /\ rinshan' = TRUE
  /\ phase' = "react"
  /\ UNCHANGED <<turn, riichi, yama, dead, kyoku>>

Ended(events) ==
  /\ LogAnd(events \o <<Ev("end_kyoku", 9)>>) /\ phase' = "between"
  /\ UNCHANGED <<turn, flags, yama, dead, kyoku>>
Tsumo == phase = "act" /\ Answers("hora", 0) /\ Ended(<<Ev("hora", turn)>>)
KyuushuKyuuhai == phase = "act" /\ Answers("ryukyoku", 0) /\ Ended(<<Ev("ryukyoku", 9)>>)
Exhausted == phase = "draw" /\ ~rinshan /\ yama > 0 /\ Ended(<<Ev("ryukyoku", 9)>>) /\ UNCHANGED chosen
(* Four winds: the kyoku ends on a discard nobody is asked about. *)
FourWinds ==
  /\ phase = "react" /\ log[Len(log)].type = "dahai" /\ ~riichi
  /\ Ended(<<Ev("ryukyoku", 9)>>) /\ UNCHANGED chosen

(* Four riichi: the drawer is asked, but all four riichi are accepted by then
   and the answer is dropped.  How many others declared one is left open. *)
FourRiichi(act, tile) ==
  /\ phase = "act" /\ log[Len(log)].type = "tsumo"
  /\ \/ log[Len(log) - 1].type = "reach_accepted"
     \/ log[Len(log) - 1].type = "dora" /\ log[Len(log) - 2].type = "reach_accepted"
  /\ Offer.acts \subseteq {"dahai", "ankan", "hora"}   \* of a player in riichi
  /\ Answers(act, tile)
  /\ Ended(<<Ev("ryukyoku", 9)>>)

(* The discard, or the kakan, of `turn' is answered: by the player with `act',
   by a rival with `other'.  A win goes before a pon or a kan, these before a chi. *)
Decides(act, tile) ==
  chosen' = IF Offer.acts = {} THEN chosen
            ELSE Append(chosen, [at |-> Len(log), act |-> act, tile |-> tile,
                                 yama |-> yama, dead |-> dead])
Rons(act, q, other) == If(other = "ron", Ev("hora", q)) \o If(act = "ron", Ev("hora", Pov))
Called(p, type, tile) ==
  /\ LogAnd(Accepted \o <<[With(Ev(type, p), IF p = Pov /\ type # "daiminkan" THEN Discard
                                             ELSE NoOffer) EXCEPT !.tile = tile]>>)
  /\ turn' = p /\ riichi' = FALSE /\ phase' = IF type = "daiminkan" THEN "draw" ELSE "act"
  /\ IF type = "daiminkan" THEN /\ doraAtDiscard' = TRUE /\ rinshan' = TRUE
                                /\ doraAtTsumo' = doraAtDiscard
     ELSE UNCHANGED <<doraAtDiscard, doraAtTsumo, rinshan>>
  /\ UNCHANGED <<yama, dead, kyoku>>
React(act, q, other) ==
  /\ phase = "react" /\ Room /\ q \notin {Pov, turn}
  /\ act \in Offer.acts \cup {"pass"}
  /\ other = "pon" => Offer.acts \cap {"pon", "daiminkan"} = {} /\ ~rinshan
  /\ Decides(act, log[Len(log)].tile)
  /\ CASE "ron" \in {act, other} -> Ended(Rons(act, q, other))
       [] "ron" \notin {act, other} /\ other = "pon" -> Called(q, "pon", log[Len(log)].tile)
       [] other = "none" /\ act \in {"pon", "daiminkan", "chi"} ->
            Called(Pov, act, log[Len(log)].tile)
       [] other = "none" /\ act = "pass" ->
            /\ phase' = "draw"
            /\ IF rinshan THEN UNCHANGED turn ELSE turn' = (turn + 1) % 4
            /\ UNCHANGED <<log, flags, yama, dead, kyoku>>

(* Four kans of several players: the discard after the fourth is answered like
   any other, but only a win counts, and the kyoku ends.  How many kans the
   others made is left open; a fifth is not offered. *)
FourKans(act) ==
  /\ phase = "react" /\ log[Len(log)].type = "dahai" /\ "daiminkan" \notin Offer.acts
  /\ act \in (Offer.acts \ {"ron"}) \cup {"pass"}
  /\ Decides(act, log[Len(log)].tile)
  /\ Ended(<<Ev("ryukyoku", 9)>>)

EndGame ==
  /\ phase = "between" /\ kyoku > 0
  /\ LogAnd(<<Ev("end_game", 9)>>) /\ phase' = "over"
  /\ UNCHANGED <<chosen, turn, flags, yama, dead, kyoku>>

Next ==
  \/ \E p \in {Pov, 1} : StartKyoku(p)
  \/ \E offer \in OwnOffers \cup {NoOffer} : Draw(offer)
  \/ \E tile \in Discards, offer \in CallOffers : Dahai(tile, offer)
  \/ Reach \/ Tsumo \/ KyuushuKyuuhai \/ Exhausted \/ FourWinds \/ EndGame
  \/ \E tile \in Discards : Ankan(tile)
  \/ \E act \in {"dahai", "ankan", "hora"}, tile \in Discards : FourRiichi(act, tile)
  \/ \E act \in {"pass", "chi", "pon"} : FourKans(act)
  \/ \E tile \in Discards, offer \in CallOffers : Kakan(tile, offer)
  \/ \E act \in {"pass", "chi", "pon", "daiminkan", "ron"}, q \in Seats,
        other \in {"none", "pon", "ron"} : React(act, q, other)

Spec == Init /\ [][Next]_vars

-----------------------------------------------------------------------------
(* The loader *)

(* The context after the events up to i. *)
Start == [kyoku |-> 0, from_rinshan |-> FALSE, yama |-> 0, rinshan |-> 0]
WallForgetsAnkan(c, e) ==               \* mutant: the tile after an ankan comes from the wall
  CASE e.type = "end_kyoku" -> [Start EXCEPT !.kyoku = c.kyoku + 1]
    [] e.type = "tsumo" /\ c.from_rinshan ->
         [c EXCEPT !.rinshan = @ + 1, !.from_rinshan = FALSE]
    [] e.type = "tsumo" /\ ~c.from_rinshan -> [c EXCEPT !.yama = @ + 1]
    [] e.type \in {"kakan", "daiminkan"} -> [c EXCEPT !.from_rinshan = TRUE]
    [] OTHER -> c
Wall(c, e) ==
  CASE e.type = "end_kyoku" -> [Start EXCEPT !.kyoku = c.kyoku + 1]
    [] e.type = "tsumo" /\ c.from_rinshan ->
         [c EXCEPT !.rinshan = @ + 1, !.from_rinshan = FALSE]
    [] e.type = "tsumo" /\ ~c.from_rinshan -> [c EXCEPT !.yama = @ + 1]
    [] e.type \in {"ankan", "kakan", "daiminkan"} -> [c EXCEPT !.from_rinshan = TRUE]
    [] OTHER -> c

(* What follows event i, past one announcement. *)
Following(i) == IF log[i + 1].type \in {"reach_accepted", "dora"} THEN log[i + 2] ELSE log[i + 1]

Unlabelled == <<"none", 0>>
Won(i) == /\ log[i + 1].type = "hora"
          /\ \E k \in 1 .. 3 : /\ log[i + k].type = "hora" /\ log[i + k].actor = Pov
                               /\ \A m \in 1 .. k : log[i + m].type # "end_kyoku"
Denied(i) ==
  \/ "chi" \in log[i].cans.acts /\ Following(i).type = "tsumo"
  \/ log[i].cans.acts \cap {"pon", "daiminkan", "ron"} # {} /\ log[i + 1].type # "hora"
Label(i) ==
  LET next == Following(i)
      mine == next.actor = Pov
  IN CASE next.type = "dahai" -> <<"dahai", next.tile>>
       [] next.type = "reach" -> <<"reach", 0>>
       [] next.type \in {"chi", "pon"} /\ mine -> <<next.type, 0>>
       [] next.type = "daiminkan" /\ mine -> <<"kan", 0>>
       [] next.type \in {"kakan", "ankan"} -> <<"kan", 0>>
       [] next.type = "ryukyoku" /\ "ryukyoku" \in log[i].cans.acts -> <<"ryukyoku", 0>>
       [] OTHER -> IF Won(i) THEN <<"hora", 0>>
                   ELSE IF Denied(i) THEN <<"pass", 0>> ELSE Unlabelled

KanSelect(i) ==
  LET next == Following(i)
      several == \/ next.type = "kakan" /\ Cardinality(log[i].cans.kakans) > 1
                 \/ next.type = "ankan" /\ Cardinality(log[i].cans.ankans) > 1
  IN Label(i) = <<"kan", 0>> /\ (AlwaysKan \/ several)

(* add_entry, for the label and for the choice of a kan. *)
Entry(i, c, kan, label) ==
  [at |-> i, kan |-> kan, label |-> label, kyoku |-> c.kyoku, yama |-> c.yama, rinshan |-> c.rinshan]
EntriesOf(i, c) ==
  IF log[i].cans.acts = {} \/ Label(i) = Unlabelled THEN <<>>
  ELSE <<Entry(i, c, FALSE, Label(i))>>
       \o (IF KanSelect(i) THEN <<Entry(i, c, TRUE, <<"kan", Following(i).tile>>)>> ELSE <<>>)

(* load_events_by_player: one window of four events after the other. *)
Loaded ==
  LET upto[i \in 0 .. Len(log)] ==
        IF i = 0 THEN [ctx |-> Start, entries |-> <<>>]
        ELSE LET c == Wall(upto[i - 1].ctx, log[i])
             IN [ctx |-> c, entries |-> upto[i - 1].entries \o EntriesOf(i, c)]
  IN upto[Len(log) - 3].entries
Dones(entries) ==
  [k \in DOMAIN entries |-> k = Len(entries) \/ entries[k + 1].kyoku > entries[k].kyoku]

-----------------------------------------------------------------------------
(* Properties *)

Truth(c) == CASE c.act \in {"ankan", "kakan", "daiminkan"} -> <<"kan", 0>>
              [] c.act = "ron" -> <<"hora", 0>>
              [] c.act = "dahai" -> <<"dahai", c.tile>>
              [] OTHER -> <<c.act, 0>>
Own(c) == "dahai" \in log[c.at].cans.acts
Cut(c) == Following(c.at).type \in {"hora", "pon", "ryukyoku"}

(* What no record tells rightly: an answer after four riichi leaves no trace in
   the log, and a call that the four-kan abort drops, or a chi that a pon overrides,
   reads like a denied call if the player could also have called more. *)
Dropped(c) == Own(c) /\ Following(c.at).type = "ryukyoku" /\ c.act # "ryukyoku"
ReadsAsDenied(c) ==
  \/ /\ c.act = "chi" /\ "ron" \in log[c.at].cans.acts /\ Following(c.at).type = "pon"
  \/ /\ c.act \in {"pon", "chi"} /\ log[c.at].cans.acts \cap {"pon", "ron"} # {}
     /\ Following(c.at).type = "ryukyoku"

(* Each decision of the player's own turn has one record, labelled with what it
   chose, unless four riichi dropped it, which has none.  A call is labelled with
   what it chose or, when somebody else's win or pon or the end of the kyoku came
   first, not at all; the exceptions are exactly those of ReadsAsDenied, which are
   labelled "pass".  Nothing the player was not asked has a record, but the discard
   that ends a kyoku by four winds. *)
LabelsTellTheChoice(E) ==
  /\ \A n \in DOMAIN chosen :
       LET c == chosen[n]
           mine == {k \in DOMAIN E : E[k].at = c.at /\ ~E[k].kan}
       IN /\ Cardinality(mine) <= 1
          /\ Dropped(c) => mine = {}
          /\ (~Dropped(c) /\ (Own(c) \/ ~Cut(c))) => mine # {}
          /\ \A k \in mine :
               E[k].label = IF ReadsAsDenied(c) THEN <<"pass", 0>> ELSE Truth(c)
          /\ \A k \in DOMAIN E : (E[k].at = c.at /\ E[k].kan) => E[k].label = <<"kan", c.tile>>
  /\ \A k \in DOMAIN E : (\A n \in DOMAIN chosen : chosen[n].at # E[k].at) =>
                            log[E[k].at + 1].type = "ryukyoku"

(* The hidden tiles a record is given are those still hidden when the player
   decided: the wall and the dead wall are as far as the table's. *)
OracleFollowsTheWall(E) ==
  \A k \in DOMAIN E, n \in DOMAIN chosen :
    E[k].at = chosen[n].at => E[k].yama = chosen[n].yama /\ E[k].rinshan = chosen[n].dead

(* The records of a kyoku end with its last one. *)
OneEndPerKyoku(E) ==
  \A k \in DOMAIN E :
    Dones(E)[k] = \A m \in DOMAIN E : E[m].kyoku = E[k].kyoku => m <= k

RecordsTellTheGame ==
  phase = "over" => LET E == Loaded IN /\ LabelsTellTheChoice(E)
                                       /\ OracleFollowsTheWall(E)
                                       /\ OneEndPerKyoku(E)

(* The comment of the loader on a denied call (gameplay.rs, lines 397 to 405): a
   record labelled "pass" is of an offer the player denied. *)
PassMeansDenied ==
  phase = "over" => \A k \in DOMAIN Loaded :
    Loaded[k].label = <<"pass", 0>> =>
      \E n \in DOMAIN chosen : chosen[n].at = Loaded[k].at /\ chosen[n].act = "pass"
=============================================================================
