----------------------------- MODULE BattleRoom -----------------------------
(***************************************************************************)
(* A battle room of realtime-cpp and its lockstep engine. One compute      *)
(* thread handles the room's messages and then ticks the room, so a        *)
(* message and a tick are one step each; what interleaves is the order of  *)
(* the players' messages between ticks.                                    *)
(*                                                                         *)
(* battle_frame_ and the engine's frame_counter_ are both incremented by   *)
(* every Tick and by nothing else: frame stands for both. Connection ids   *)
(* are left out (conn_to_player_ is never read), the scene is reduced to   *)
(* the crystals that stand, an input to the player it came from, a team    *)
(* list to its entries (nothing depends on their order). Confirmed         *)
(* frames that leave the buffer after kHistorySize frames and the history  *)
(* after kReplayHistorySize are kept: nothing reads them.                  *)
(***************************************************************************)
EXTENDS Naturals, FiniteSets, Sequences

CONSTANTS
    Players,
    TeamSize,        \* battle_cfg_.team_size
    CountdownTicks,  \* countdown_remaining_sec_ at the start (3)
    TimeoutFrames,   \* lockstep_timeout_ms / 33 (12)
    ReconnectFrames, \* max_reconnect_wait_sec * 30
    CatchUp,         \* frames TryAdvance may run ahead (32)
    MaxFrame,        \* bound on ticks
    MaxIdle,         \* bound on the frame of a tick that waits for players
    MaxListed        \* bound on the entries of the team lists

ASSUME RoomAssumption ==
    /\ TeamSize \in Nat \ {0} /\ CountdownTicks \in Nat \ {0}
    /\ TimeoutFrames \in Nat /\ ReconnectFrames \in Nat
    /\ CatchUp \in Nat /\ MaxFrame \in Nat /\ MaxIdle \in Nat /\ MaxListed \in Nat

Frames == 0..(MaxFrame + CatchUp)
NoFrame == MaxFrame + 1
BattleState == {"Waiting", "Loading", "Countdown", "Fighting", "Finished"}
Team == {"Blue", "Red"}
Absent == [team |-> "Blue", connected |-> FALSE, ready |-> FALSE]

VARIABLES
    state,         \* battle_state_
    frame,         \* battle_frame_, frame_counter_
    countdown,     \* countdown_remaining_sec_
    in,            \* the keys of players_
    info,          \* players_
    blue, red,     \* blue_players_, red_players_: <<p, n>> is one of p's entries
    disconnected,  \* disconnected_players_: the frame, or NoFrame
    crystals,      \* the crystals that stand
    current,       \* current_frame_
    active, all,   \* active_players_, all_players_
    inputs,        \* frame_buffer_[f].player_inputs: who has one
    confirmed,     \* frame_buffer_[f].confirmed
    startCount,    \* frame_start_count_, 0 where there is none
    history,       \* frame_history_: frames, in the order of confirmation
    reentered,     \* history: players that entered while they were in the room
    overtaken      \* history: players that entered while their wait was running

roomVars == <<in, info, blue, red>>
entered == <<reentered, overtaken>>
lockstep == <<current, active, all, inputs, confirmed, startCount>>
vars == <<state, frame, countdown, in, info, blue, red, disconnected, crystals, current, active, all,
          inputs, confirmed, startCount, history, reentered, overtaken>>

-----------------------------------------------------------------------------
(* LockstepEngine                                                          *)

IsFrameReady(f) == active \subseteq inputs[f]

\* The frame began and has been waited for long enough.
TimedOut(f, start) == start[f] # 0 /\ frame + 1 - start[f] >= TimeoutFrames

\* Mutant: without the check of fi.confirmed.
TryAdvanceAgain(cur, start) ==
    {f \in cur..(cur + CatchUp) : \A g \in cur..f : IsFrameReady(g) \/ TimedOut(g, start)}

\* The frames one TryAdvance confirms: from the current one on, in order, up
\* to the first that is neither confirmed nor ready nor timed out.
TryAdvance(cur, start) ==
    {f \in cur..(cur + CatchUp) :
        /\ ~confirmed[f]
        /\ \A g \in cur..f : confirmed[g] \/ IsFrameReady(g) \/ TimedOut(g, start)}

\* The loop goes up from frame to frame.
InOrder(S) ==
    CHOOSE s \in [1..Cardinality(S) -> S] :
        \A i, j \in 1..Cardinality(S) : i < j => s[i] < s[j]

-----------------------------------------------------------------------------
(* Messages                                                                *)

Full == Cardinality(in) >= TeamSize * 2

\* Mutant: off by one.
NextTeamOther == IF Cardinality(blue) <= Cardinality(red) + 1 THEN "Blue" ELSE "Red"

\* The smaller team, blue first.
NextTeam == IF Cardinality(blue) <= Cardinality(red) THEN "Blue" ELSE "Red"

EntriesOf(list, p) == {e \in list : e[1] = p}

\* push_back: one more entry of p.
PushBack(list, p) == list \cup {<<p, Cardinality(EntriesOf(list, p))>>}

\* A player that is already in the room is entered again: its PlayerInfo is
\* replaced and its id is listed twice.
OnPlayerEnter(p) ==
    LET team == NextTeam IN
    /\ ~Full /\ Cardinality(blue) + Cardinality(red) < MaxListed
    /\ in' = in \cup {p}
    /\ info' = [info EXCEPT ![p] = [team |-> team, connected |-> TRUE, ready |-> FALSE]]
    /\ blue' = IF team = "Blue" THEN PushBack(blue, p) ELSE blue
    /\ red' = IF team = "Red" THEN PushBack(red, p) ELSE red
    /\ reentered' = IF p \in in THEN reentered \cup {p} ELSE reentered
    /\ overtaken' = IF disconnected[p] # NoFrame THEN overtaken \cup {p} ELSE overtaken
    /\ UNCHANGED <<state, frame, countdown, disconnected, crystals, lockstep, history>>

\* RemovePlayer of every player of S that is in the room.
RemovePlayers(S) ==
    LET gone == S \cap in
        Without(list, team) == {e \in list : ~(e[1] \in gone /\ info[e[1]].team = team)} IN
    /\ in' = in \ gone
    /\ info' = [p \in Players |-> IF p \in gone THEN Absent ELSE info[p]]
    /\ blue' = Without(blue, "Blue")
    /\ red' = Without(red, "Red")

PlayerDisconnected(p) == active' = active \ {p}

\* Mutant: the engine is not told.
LeaveBattleSilent(p) ==
    /\ state = "Fighting" /\ p \in in
    /\ info' = [info EXCEPT ![p].connected = FALSE]
    /\ disconnected' = [disconnected EXCEPT ![p] = frame]
    /\ UNCHANGED <<state, frame, countdown, in, blue, red, crystals, lockstep, history, entered>>

\* OnPlayerLeave during the battle: the player waits for its reconnection.
\* OnPlayerDisconnect does the same in every state, but no message of
\* realtime-cpp leads to it.
LeaveBattle(p) ==
    /\ state = "Fighting" /\ p \in in
    /\ info' = [info EXCEPT ![p].connected = FALSE]
    /\ disconnected' = [disconnected EXCEPT ![p] = frame]
    /\ PlayerDisconnected(p)
    /\ UNCHANGED <<state, frame, countdown, in, blue, red, crystals, current, all, inputs, confirmed,
                   startCount, history, entered>>

LeaveRoom(p) ==
    /\ state # "Fighting" /\ p \in in
    /\ RemovePlayers({p})
    /\ UNCHANGED <<state, frame, countdown, disconnected, crystals, lockstep, history, entered>>

OnBattleReady(p) ==
    /\ p \in in
    /\ info' = [info EXCEPT ![p].ready = TRUE]
    /\ UNCHANGED <<state, frame, countdown, in, blue, red, disconnected, crystals, lockstep, history, entered>>

PlayerReconnected(p) == active' = IF p \in all THEN active \cup {p} ELSE active

\* HandleReconnect. The answer it prepares is not attached to what it sends.
OnPlayerReconnect(p) ==
    /\ p \in in
    /\ info' = [info EXCEPT ![p].connected = TRUE]
    /\ disconnected' = [disconnected EXCEPT ![p] = NoFrame]
    /\ PlayerReconnected(p)
    /\ UNCHANGED <<state, frame, countdown, in, blue, red, crystals, current, all, inputs, confirmed,
                   startCount, history, entered>>

\* OnHeroMoveInput and OnHeroCastSkill: SubmitInput files under the current frame.
SubmitInput(p) ==
    /\ state = "Fighting" /\ p \in all
    /\ inputs' = [inputs EXCEPT ![current] = @ \cup {p}]
    /\ UNCHANGED <<state, frame, countdown, roomVars, disconnected, crystals, current, active, all,
                   confirmed, startCount, history, entered>>

-----------------------------------------------------------------------------
(* Tick                                                                    *)

\* ++battle_frame_ and TickFrameCounter.
TickFrame == frame < MaxFrame /\ frame' = frame + 1

TickWaiting ==
    /\ state = "Waiting" /\ TickFrame /\ (Full \/ frame < MaxIdle)
    /\ state' = IF Full THEN "Loading" ELSE state
    /\ UNCHANGED <<countdown, roomVars, disconnected, crystals, lockstep, history, entered>>

\* A crystal for each team.
InitBattleScene == Team

AllReady == \A p \in in : info[p].ready \/ ~info[p].connected

TickLoading ==
    /\ state = "Loading" /\ TickFrame /\ (AllReady \/ frame < MaxIdle)
    /\ state' = IF AllReady THEN "Countdown" ELSE state
    /\ countdown' = IF AllReady THEN CountdownTicks ELSE countdown
    /\ crystals' = IF AllReady THEN InitBattleScene ELSE crystals
    /\ UNCHANGED <<roomVars, disconnected, lockstep, history, entered>>

\* Mutant: looks at the counter before it decrements.
TickCountdownLate ==
    LET present == {p \in in : info[p].connected} IN
    /\ state = "Countdown" /\ TickFrame
    /\ countdown' = countdown - 1
    /\ state' = IF countdown = 0 THEN "Fighting" ELSE state
    /\ active' = IF countdown = 0 THEN present ELSE active
    /\ all' = IF countdown = 0 THEN present ELSE all
    /\ UNCHANGED <<roomVars, disconnected, crystals, current, inputs, confirmed, startCount, history, entered>>

TickCountdown ==
    LET present == {p \in in : info[p].connected} IN
    /\ state = "Countdown" /\ TickFrame
    /\ countdown' = countdown - 1
    /\ state' = IF countdown' = 0 THEN "Fighting" ELSE state
    /\ active' = IF countdown' = 0 THEN present ELSE active
    /\ all' = IF countdown' = 0 THEN present ELSE all
    /\ UNCHANGED <<roomVars, disconnected, crystals, current, inputs, confirmed, startCount, history, entered>>

\* CheckWinCondition: one crystal stands and the other does not.
Won(standing) == Cardinality(standing) = 1

\* Mutant: takes who is not in disconnected_players_ for expired.
ExpiredUnlisted(f) ==
    {p \in Players \ active : disconnected[p] = NoFrame \/ f - disconnected[p] > ReconnectFrames}

\* Whose wait for a reconnection is over at frame f.
Expired(f) == {p \in Players : disconnected[p] # NoFrame /\ f - disconnected[p] > ReconnectFrames}

\* The crystals that may fall in a tick: what the inputs, the entities, the
\* minions and TickCombat come to.
TickCombat == SUBSET crystals

TickFighting(fallen) ==
    LET now == frame + 1
        start == [startCount EXCEPT ![now] = now]
        done == TryAdvance(now, start)
        standing == crystals \ fallen IN
    /\ state = "Fighting" /\ TickFrame
    /\ current' = now
    /\ startCount' = start
    /\ confirmed' = [f \in Frames |-> confirmed[f] \/ f \in done]
    /\ inputs' = [f \in Frames |-> IF f \in done THEN inputs[f] \cup active ELSE inputs[f]]
    /\ history' = history \o InOrder(done)
    /\ crystals' = standing
    /\ state' = IF Won(standing) THEN "Finished" ELSE state
    /\ RemovePlayers(Expired(now))
    /\ disconnected' = [p \in Players |-> IF p \in Expired(now) THEN NoFrame ELSE disconnected[p]]
    /\ UNCHANGED <<countdown, active, all, entered>>

TickFinished ==
    /\ state = "Finished" /\ TickFrame
    /\ UNCHANGED <<state, countdown, roomVars, disconnected, crystals, lockstep, history, entered>>

-----------------------------------------------------------------------------
Init ==
    /\ state = "Waiting" /\ frame = 0 /\ countdown = CountdownTicks
    /\ in = {} /\ info = [p \in Players |-> Absent] /\ blue = {} /\ red = {}
    /\ disconnected = [p \in Players |-> NoFrame] /\ crystals = {}
    /\ current = 0 /\ active = {} /\ all = {}
    /\ inputs = [f \in Frames |-> {}] /\ confirmed = [f \in Frames |-> FALSE]
    /\ startCount = [f \in Frames |-> 0]
    /\ history = <<>> /\ reentered = {} /\ overtaken = {}

Next ==
    \/ \E p \in Players :
        \/ OnPlayerEnter(p) \/ LeaveBattle(p) \/ LeaveRoom(p)
        \/ OnBattleReady(p) \/ OnPlayerReconnect(p) \/ SubmitInput(p)
    \/ TickWaiting \/ TickLoading \/ TickCountdown \/ TickFinished
    \/ \E fallen \in TickCombat : TickFighting(fallen)

Spec == Init /\ [][Next]_vars

-----------------------------------------------------------------------------
(* Properties                                                              *)

\* Every variable keeps its type; a player that is not in the room has no info.
TypeOK ==
    /\ state \in BattleState /\ frame \in 0..MaxFrame /\ countdown \in 0..CountdownTicks
    /\ in \subseteq Players
    /\ info \in [Players -> [team : Team, connected : BOOLEAN, ready : BOOLEAN]]
    /\ blue \subseteq Players \X Nat /\ red \subseteq Players \X Nat
    /\ disconnected \in [Players -> 0..NoFrame] /\ crystals \subseteq Team
    /\ current \in 0..MaxFrame /\ active \subseteq Players /\ all \subseteq Players
    /\ inputs \in [Frames -> SUBSET Players] /\ confirmed \in [Frames -> BOOLEAN]
    /\ startCount \in [Frames -> 0..MaxFrame] /\ history \in Seq(Frames)
    /\ reentered \subseteq Players /\ overtaken \subseteq Players

\* OnPlayerEnter keeps the teams level: through any entries, departures and
\* expiries neither list outgrows the team size, and the lists hold exactly the
\* players of that team, as long as nobody entered while being in the room.
TeamsFit ==
    reentered = {} =>
        /\ Cardinality(blue) <= TeamSize /\ Cardinality(red) <= TeamSize
        /\ Cardinality(blue) + Cardinality(red) = Cardinality(in)
        /\ \A p \in in : EntriesOf(IF info[p].team = "Blue" THEN blue ELSE red, p) # {}

\* The engine never waits for the input of somebody who is not there: while the
\* battle runs, every active player is in the room and connected, whatever the
\* order of leaving, reconnecting, entering again and expiring (unless its wait
\* was running when it entered again).
ActivePresent ==
    state = "Fighting" => \A p \in active \ overtaken : p \in in /\ info[p].connected

\* TryAdvance confirms frames in order and none twice, over all ticks, also
\* after it ran ahead because nobody was connected.
ConfirmedInOrder ==
    \A i \in 1..(Len(history) - 1) : history[i] < history[i + 1]

\* No tick takes a connected player out of the room: the wait of a player that
\* came back in time is over, unless it came back by entering instead of
\* reconnecting (then its old wait runs on).
KeepsPresent ==
    [][\A p \in Players :
        p \in in /\ info[p].connected /\ p \notin overtaken /\ p \notin in' => frame' = frame]_vars

\* An input the engine accepted is confirmed, at the latest when its frame has
\* timed out.
InputsConfirmed ==
    state = "Fighting" => \A f \in 1..frame :
        inputs[f] # {} /\ frame - f > TimeoutFrames => confirmed[f]
=============================================================================
