-------------------------- MODULE BattleRoomProofs --------------------------
(***************************************************************************)
(* Theorems about BattleRoom, for any players, team size, countdown,       *)
(* timeouts, catch-up window and number of ticks.                          *)
(***************************************************************************)
EXTENDS BattleRoom, SequenceTheorems, FiniteSetTheorems, TLAPS

PlayerInfo == [team : Team, connected : BOOLEAN, ready : BOOLEAN]

\* A wait for a reconnection begins in the battle, and a player that is
\* connected has none, unless it entered over it.
Waits ==
  /\ state = "Countdown" => countdown > 0
  /\ state \in {"Waiting", "Loading", "Countdown"} => \A p \in Players : disconnected[p] = NoFrame
  /\ \A p \in in \ overtaken : info[p].connected => disconnected[p] = NoFrame

\* The history is strictly increasing, and what is in it is confirmed.
Ordered ==
  /\ \A i, j \in DOMAIN history : i < j => history[i] < history[j]
  /\ \A i \in DOMAIN history : confirmed[history[i]]

\* From the frame of the last tick on, the confirmed frames have no gap.
Ahead == \A f, g \in Frames : frame <= f /\ f <= g /\ confirmed[g] => confirmed[f]

\* The one entry of each player of the team.
Seats(team) == {q \in in : info[q].team = team} \X {0}

\* Who entered once is listed once, in its team, and the teams fit.
Seated ==
  /\ IsFiniteSet(in) /\ IsFiniteSet(blue) /\ IsFiniteSet(red)
  /\ reentered = {} =>
       /\ blue = Seats("Blue") /\ red = Seats("Red")
       /\ Cardinality(blue) <= TeamSize /\ Cardinality(red) <= TeamSize

Inv == TypeOK /\ Waits /\ ActivePresent /\ Ordered /\ Ahead /\ Seated
-----------------------------------------------------------------------------
(* Team lists.                                                             *)

\* The seats of both teams are as many as the players in the room.
LEMMA Counting ==
  ASSUME TypeOK, IsFiniteSet(in)
  PROVE  /\ \A t \in Team : IsFiniteSet(Seats(t)) /\ Cardinality(Seats(t)) \in Nat
         /\ Cardinality(Seats("Blue")) + Cardinality(Seats("Red")) = Cardinality(in)
         /\ Cardinality(in) \in Nat
<1> DEFINE Of(t) == {q \in in : info[q].team = t}
<1>1. ASSUME NEW t \in Team
      PROVE  /\ IsFiniteSet(Of(t)) /\ IsFiniteSet(Seats(t))
             /\ Cardinality(Seats(t)) = Cardinality(Of(t)) /\ Cardinality(Of(t)) \in Nat
  <2>1. IsFiniteSet(Of(t)) /\ Cardinality(Of(t)) \in Nat
    BY FS_Subset, FS_CardinalityType
  <2>2. IsFiniteSet({0}) /\ Cardinality({0}) = 1
    BY FS_Singleton
  <2>3. /\ IsFiniteSet(Of(t) \X {0})
        /\ Cardinality(Of(t) \X {0}) = Cardinality(Of(t)) * Cardinality({0})
    BY <2>1, <2>2, FS_Product
  <2>4. Seats(t) = Of(t) \X {0}
    BY DEF Seats
  <2> HIDE DEF Of
  <2>5. QED
    BY <2>1, <2>2, <2>3, <2>4
<1>2. "Blue" \in Team /\ "Red" \in Team
  BY DEF Team
<1>3. Of("Blue") \cup Of("Red") = in /\ Of("Blue") \cap Of("Red") = {}
  BY DEF TypeOK, Team
<1>4. IsFiniteSet(Of("Blue")) /\ IsFiniteSet(Of("Red"))
  BY <1>1, <1>2
<1> HIDE DEF Of
<1>5. Cardinality(in) = Cardinality(Of("Blue")) + Cardinality(Of("Red")) - Cardinality({})
  BY <1>3, <1>4, FS_Union
<1>6. Cardinality({}) = 0
  BY FS_EmptySet
<1>7. Cardinality(in) \in Nat
  BY FS_CardinalityType
<1>8. QED
  BY <1>1, <1>2, <1>5, <1>6, <1>7

\* The teams of the players in the room did not change.
LEMMA SeatsKept ==
  ASSUME Seated, UNCHANGED <<in, blue, red, reentered>>,
         \A p \in in : info'[p].team = info[p].team
  PROVE  Seated'
<1>1. Seats("Blue")' = Seats("Blue") /\ Seats("Red")' = Seats("Red")
  BY DEF Seats
<1>2. QED
  BY <1>1 DEF Seated

\* RemovePlayer takes a player out of players_ and out of the list of its team.
LEMMA Removing ==
  ASSUME Inv, NEW S \in SUBSET Players, RemovePlayers(S), UNCHANGED reentered
  PROVE  /\ in' = in \ S /\ blue' \subseteq blue /\ red' \subseteq red
         /\ info' \in [Players -> PlayerInfo]
         /\ \A p \in Players : p \notin S \cap in => info'[p] = info[p]
         /\ Seated'
<1>1. in' = in \ S /\ blue' \subseteq blue /\ red' \subseteq red
  BY DEF RemovePlayers
<1>2. Absent \in PlayerInfo
  BY DEF Absent, PlayerInfo, Team
<1>3. info \in [Players -> PlayerInfo] /\ in \subseteq Players
  BY DEF Inv, TypeOK, PlayerInfo
<1>4. /\ info' \in [Players -> PlayerInfo]
      /\ \A p \in Players : p \notin S \cap in => info'[p] = info[p]
  BY <1>2, <1>3 DEF RemovePlayers
<1>5. IsFiniteSet(in') /\ IsFiniteSet(blue') /\ IsFiniteSet(red')
  BY <1>1, FS_Subset DEF Inv, Seated
<1>6. ASSUME reentered = {}
      PROVE  /\ blue' = Seats("Blue")' /\ red' = Seats("Red")'
             /\ Cardinality(blue') <= TeamSize /\ Cardinality(red') <= TeamSize
  <2>1. blue = Seats("Blue") /\ red = Seats("Red")
    BY <1>6 DEF Inv, Seated
  <2>2. blue' = Seats("Blue")'
    BY <1>1, <1>3, <1>4, <2>1 DEF RemovePlayers, Seats
  <2>3. red' = Seats("Red")'
    BY <1>1, <1>3, <1>4, <2>1 DEF RemovePlayers, Seats
  <2>4. IsFiniteSet(blue) /\ IsFiniteSet(red)
    BY <2>1, Counting DEF Inv, Seated, Team
  <2>5. /\ Cardinality(blue') <= Cardinality(blue) /\ Cardinality(red') <= Cardinality(red)
        /\ Cardinality(blue') \in Nat /\ Cardinality(red') \in Nat
        /\ Cardinality(blue) \in Nat /\ Cardinality(red) \in Nat
    BY <1>1, <2>4, FS_Subset, FS_CardinalityType
  <2>6. Cardinality(blue) <= TeamSize /\ Cardinality(red) <= TeamSize /\ TeamSize \in Nat
    BY <1>6, RoomAssumption DEF Inv, Seated
  <2>7. QED
    BY <2>2, <2>3, <2>5, <2>6
<1>7. Seated'
  BY <1>5, <1>6 DEF Seated
<1>8. QED
  BY <1>1, <1>4, <1>7

\* Whoever enters for the first time gets a seat in the smaller team, and
\* there is one.
LEMMA Entering ==
  ASSUME Inv, NEW p \in Players, OnPlayerEnter(p)
  PROVE  Seated'
<1>1. /\ in' = in \cup {p} /\ ~Full
      /\ info' = [info EXCEPT ![p] = [team |-> NextTeam, connected |-> TRUE, ready |-> FALSE]]
      /\ blue' = IF NextTeam = "Blue" THEN PushBack(blue, p) ELSE blue
      /\ red' = IF NextTeam = "Red" THEN PushBack(red, p) ELSE red
      /\ reentered' = IF p \in in THEN reentered \cup {p} ELSE reentered
  BY DEF OnPlayerEnter
<1>2. IsFiniteSet(in') /\ IsFiniteSet(blue') /\ IsFiniteSet(red')
  BY <1>1, FS_AddElement DEF Inv, Seated, PushBack
<1>3. ASSUME reentered' = {}
      PROVE  /\ blue' = Seats("Blue")' /\ red' = Seats("Red")'
             /\ Cardinality(blue') <= TeamSize /\ Cardinality(red') <= TeamSize
  <2>1. reentered = {} /\ p \notin in
    BY <1>1, <1>3
  <2>2. blue = Seats("Blue") /\ red = Seats("Red")
    BY <2>1 DEF Inv, Seated
  <2>3. /\ info'[p].team = NextTeam
        /\ \A q \in in : info'[q] = info[q]
    BY <1>1, <2>1 DEF Inv, TypeOK
  <2>4. EntriesOf(blue, p) = {} /\ EntriesOf(red, p) = {}
    BY <2>1, <2>2 DEF EntriesOf, Seats
  <2>5. /\ PushBack(blue, p) = blue \cup {<<p, 0>>}
        /\ PushBack(red, p) = red \cup {<<p, 0>>}
    BY <2>4, FS_EmptySet DEF PushBack
  <2>6. /\ IsFiniteSet(blue) /\ IsFiniteSet(red)
        /\ Cardinality(blue) \in Nat /\ Cardinality(red) \in Nat
        /\ Cardinality(blue) + Cardinality(red) = Cardinality(in)
    BY <2>2, Counting DEF Inv, Seated, Team
  <2>7. /\ Cardinality(blue) <= TeamSize /\ Cardinality(red) <= TeamSize
        /\ TeamSize \in Nat /\ Cardinality(in) < TeamSize * 2
    BY <1>1, <2>1, <2>6, RoomAssumption DEF Inv, Seated, Full
  <2>8. CASE NextTeam = "Blue"
    <3>1. /\ Seats("Blue")' = Seats("Blue") \cup {<<p, 0>>}
          /\ Seats("Red")' = Seats("Red")
      BY <1>1, <2>1, <2>3, <2>8 DEF Seats
    <3>2. Cardinality(blue) <= Cardinality(red)
      BY <2>8 DEF NextTeam
    <3>3. blue' = blue \cup {<<p, 0>>} /\ red' = red
      BY <1>1, <2>5, <2>8
    <3>4. Cardinality(blue') \in {Cardinality(blue), Cardinality(blue) + 1}
      BY <2>6, <3>3, FS_AddElement
    <3>5. QED
      BY <2>2, <2>6, <2>7, <3>1, <3>2, <3>3, <3>4
  <2>9. CASE NextTeam = "Red"
    <3>1. /\ Seats("Red")' = Seats("Red") \cup {<<p, 0>>}
          /\ Seats("Blue")' = Seats("Blue")
      BY <1>1, <2>1, <2>3, <2>9 DEF Seats
    <3>2. ~(Cardinality(blue) <= Cardinality(red))
      BY <2>9 DEF NextTeam
    <3>3. red' = red \cup {<<p, 0>>} /\ blue' = blue
      BY <1>1, <2>5, <2>9
    <3>4. Cardinality(red') \in {Cardinality(red), Cardinality(red) + 1}
      BY <2>6, <3>3, FS_AddElement
    <3>5. QED
      BY <2>2, <2>6, <2>7, <3>1, <3>2, <3>3, <3>4
  <2>10. QED
    BY <2>8, <2>9 DEF NextTeam
<1>4. QED
  BY <1>2, <1>3 DEF Seated
-----------------------------------------------------------------------------
(* Frames.                                                                 *)

\* A set of frames without a gap from a on is an interval, as long as it has
\* elements.
LEMMA Gapless ==
  ASSUME NEW a \in Nat, NEW b \in Nat, NEW C \in SUBSET (a .. b), \A f \in C : a .. f \subseteq C
  PROVE  Cardinality(C) \in Nat /\ C = a .. (a + Cardinality(C) - 1)
<1>1. IsFiniteSet(a .. b)
  BY FS_Interval
<1>2. IsFiniteSet(C) /\ Cardinality(C) \in Nat
  BY <1>1, FS_Subset, FS_CardinalityType
<1> DEFINE n == Cardinality(C)
           I == a .. (a + n - 1)
<1>3. n \in Nat /\ a + n - 1 \in Int /\ a \in Int
  BY <1>2
<1>4. IsFiniteSet(I) /\ Cardinality(I) = n
  <2>1. /\ IsFiniteSet(I)
        /\ Cardinality(I) = IF a > a + n - 1 THEN 0 ELSE (a + n - 1) - a + 1
    BY <1>3, FS_Interval
  <2> HIDE DEF I, n
  <2>2. QED
    BY <1>3, <2>1
<1>5. C \subseteq I
  <2>1. SUFFICES ASSUME NEW f \in C PROVE f \in I
    OBVIOUS
  <2>2. f \in a .. b /\ a .. f \in SUBSET C
    OBVIOUS
  <2>3. IsFiniteSet(a .. f) /\ Cardinality(a .. f) = f - a + 1
    BY <2>2, FS_Interval
  <2>4. Cardinality(a .. f) <= n
    BY <1>2, <2>2, FS_Subset
  <2>5. QED
    BY <1>3, <2>2, <2>3, <2>4
<1> HIDE DEF I
<1>6. C = I
  BY <1>4, <1>5, FS_Subset
<1>7. QED
  BY <1>2, <1>6 DEF I

\* The loop's order, of an interval.
LEMMA InOrderOf ==
  ASSUME NEW a \in Int, NEW b \in Int
  PROVE  LET s == InOrder(a .. b) IN
         /\ s \in Seq(a .. b) /\ DOMAIN s = 1 .. Len(s)
         /\ \A i, j \in DOMAIN s : i < j => s[i] < s[j]
<1> DEFINE n == Cardinality(a .. b)
           Up(s) == \A i, j \in 1 .. n : i < j => s[i] < s[j]
           w == [i \in 1 .. n |-> a + i - 1]
<1>1. n = IF a > b THEN 0 ELSE b - a + 1
  BY FS_Interval
<1>2. n \in Nat
  BY <1>1
<1>3. w \in [1 .. n -> a .. b] /\ Up(w)
  <2> HIDE DEF n
  <2>1. QED
    BY <1>1, <1>2
<1>4. InOrder(a .. b) \in [1 .. n -> a .. b] /\ Up(InOrder(a .. b))
  <2>1. \E s \in [1 .. n -> a .. b] : Up(s)
    BY <1>3
  <2>2. InOrder(a .. b) = CHOOSE s \in [1 .. n -> a .. b] : Up(s)
    BY DEF InOrder
  <2> HIDE DEF n, Up
  <2>3. QED
    BY <2>1, <2>2
<1> DEFINE t == InOrder(a .. b)
<1> HIDE DEF n, t
<1>5. t \in Seq(a .. b) /\ DOMAIN t = 1 .. n /\ Len(t) = n
  BY <1>2, <1>4 DEF t
<1>6. QED
  BY <1>4, <1>5 DEF t

\* What one TryAdvance confirms has no gap, and none of it was confirmed.
LEMMA Advances ==
  ASSUME TypeOK, Ahead, frame < MaxFrame, NEW start, NEW done, done = TryAdvance(frame + 1, start)
  PROVE  /\ \E a, b \in Int : done = a .. b
         /\ done \subseteq Frames
         /\ \A f \in done : frame < f /\ ~confirmed[f]
         /\ \A f \in done : \A g \in (frame + 1) .. f : confirmed[g] \/ g \in done
<1> DEFINE now == frame + 1
           last == now + CatchUp
           Ok(g) == confirmed[g] \/ IsFrameReady(g) \/ TimedOut(g, start)
           C == {f \in now .. last : confirmed[f]}
           D == {f \in now .. last : \A g \in now .. f : Ok(g)}
<1>1. now \in Nat /\ last \in Nat /\ now .. last \subseteq Frames /\ frame \in Nat
  BY RoomAssumption DEF TypeOK, Frames
<1>2. /\ \A f \in done : f \in now .. last /\ ~confirmed[f] /\ \A g \in now .. f : Ok(g)
      /\ \A f \in now .. last : ~confirmed[f] /\ (\A g \in now .. f : Ok(g)) => f \in done
  BY DEF TryAdvance
<1>3. ASSUME NEW f \in C, NEW g \in now .. f PROVE g \in C
  <2>1. f \in Frames /\ g \in Frames /\ frame <= g /\ g <= f /\ g \in now .. last
    BY <1>1
  <2>2. QED
    BY <2>1 DEF Ahead
<1>4. ASSUME NEW f \in D, NEW g \in now .. f PROVE g \in D
  <2>1. g \in now .. last /\ \A h \in now .. g : h \in now .. f
    BY <1>1
  <2>2. QED
    BY <2>1
<1>5. C \subseteq D
  <2>1. SUFFICES ASSUME NEW f \in C, NEW g \in now .. f PROVE Ok(g)
    OBVIOUS
  <2>2. QED
    BY <1>3
<1>6. done = D \ C
  BY <1>2
<1>7. Cardinality(C) \in Nat /\ C = now .. (now + Cardinality(C) - 1)
  BY <1>1, <1>3, Gapless
<1>8. Cardinality(D) \in Nat /\ D = now .. (now + Cardinality(D) - 1)
  BY <1>1, <1>4, Gapless
<1>9. \E a, b \in Int : done = a .. b
  <2> DEFINE c == Cardinality(C)
             d == Cardinality(D)
  <2> HIDE DEF C, D, c, d, now
  <2>1. done = (now + c) .. (now + d - 1)
    <3>1. c \in Nat /\ d \in Nat /\ C = now .. (now + c - 1) /\ D = now .. (now + d - 1)
      BY <1>7, <1>8 DEF c, d
    <3>2. \A w, x, y \in Nat :
            (w .. (w + y - 1)) \ (w .. (w + x - 1)) = (w + x) .. (w + y - 1)
      OBVIOUS
    <3>3. D \ C = (now + c) .. (now + d - 1)
      BY <1>1, <3>1, <3>2
    <3>4. QED
      BY <1>6, <3>3
  <2>2. now + c \in Int /\ now + d - 1 \in Int
    BY <1>1, <1>7, <1>8 DEF c, d
  <2>3. QED
    BY <2>1, <2>2
<1>10. ASSUME NEW f \in done, NEW g \in now .. f PROVE confirmed[g] \/ g \in done
  <2>1. f \in D
    BY <1>6
  <2>2. g \in D
    BY <1>4, <2>1
  <2>3. QED
    BY <1>6, <2>2
<1>11. /\ done \subseteq Frames
       /\ \A f \in done : frame < f /\ ~confirmed[f]
  BY <1>1, <1>2
<1>12. QED
  BY <1>9, <1>10, <1>11

\* Appending them keeps the history in order, and the next tick finds no gap.
LEMMA Confirming ==
  ASSUME Inv, frame < MaxFrame, frame' = frame + 1, NEW start, NEW done,
         done = TryAdvance(frame + 1, start),
         confirmed' = [f \in Frames |-> confirmed[f] \/ f \in done],
         history' = history \o InOrder(done)
  PROVE  /\ confirmed' \in [Frames -> BOOLEAN] /\ history' \in Seq(Frames)
         /\ Ordered' /\ Ahead'
<1>1. /\ \E a, b \in Int : done = a .. b
      /\ done \subseteq Frames
      /\ \A f \in done : frame < f /\ ~confirmed[f]
      /\ \A f \in done : \A g \in (frame + 1) .. f : confirmed[g] \/ g \in done
  BY Advances DEF Inv
<1> DEFINE s == InOrder(done)
<1>2. /\ s \in Seq(done) /\ DOMAIN s = 1 .. Len(s)
      /\ \A i, j \in DOMAIN s : i < j => s[i] < s[j]
  BY <1>1, InOrderOf
<1> HIDE DEF s
<1>3. /\ frame \in Nat /\ Frames \subseteq Nat /\ history \in Seq(Frames)
      /\ confirmed \in [Frames -> BOOLEAN]
  BY RoomAssumption DEF Inv, TypeOK, Frames
<1>4. confirmed' \in [Frames -> BOOLEAN] /\ \A f \in Frames : confirmed'[f] <=> confirmed[f] \/ f \in done
  BY <1>3
<1>5. s \in Seq(Frames) /\ \A i \in DOMAIN s : s[i] \in done
  BY <1>1, <1>2
<1> DEFINE n == Len(history)
<1>6. /\ history' \in Seq(Frames) /\ Len(history') = n + Len(s)
      /\ n \in Nat /\ Len(s) \in Nat /\ DOMAIN history = 1 .. n
      /\ DOMAIN history' = 1 .. (n + Len(s))
      /\ \A i \in 1 .. n : history'[i] = history[i]
      /\ \A i \in (n + 1) .. (n + Len(s)) : history'[i] = s[i - n]
  BY <1>3, <1>5, ConcatProperties DEF s
<1> HIDE DEF n
<1>7. \A i \in 1 .. n : history[i] \in Frames /\ confirmed[history[i]]
  BY <1>3, <1>6 DEF Inv, Ordered, n
<1>8. ASSUME NEW h \in Frames, confirmed[h], NEW f \in done PROVE h < f
  BY <1>1, <1>3, <1>8 DEF Inv, Ahead
<1>9. ASSUME NEW i \in DOMAIN history', NEW j \in DOMAIN history', i < j
      PROVE  history'[i] < history'[j]
  <2>1. CASE j \in 1 .. n
    <3>1. i \in 1 .. n
      BY <1>6, <1>9, <2>1
    <3>2. QED
      BY <1>6, <1>9, <2>1, <3>1 DEF Inv, Ordered
  <2>2. CASE j \in (n + 1) .. (n + Len(s))
    <3>0. j - n \in 1 .. Len(s)
      BY <1>6, <2>2
    <3>1. j - n \in DOMAIN s /\ history'[j] = s[j - n] /\ s[j - n] \in done
      BY <1>2, <1>5, <1>6, <2>2, <3>0
    <3>2. CASE i \in 1 .. n
      BY <1>6, <1>7, <1>8, <3>1, <3>2
    <3>3. CASE i \in (n + 1) .. (n + Len(s))
      <4>1. i - n \in 1 .. Len(s) /\ i - n < j - n
        BY <1>6, <1>9, <2>2, <3>3
      <4>2. i - n \in DOMAIN s /\ history'[i] = s[i - n]
        BY <1>2, <1>6, <3>3, <4>1
      <4>3. QED
        BY <1>2, <3>1, <4>1, <4>2
    <3>4. QED
      BY <1>6, <3>2, <3>3
  <2>3. QED
    BY <1>6, <2>1, <2>2
<1>10. ASSUME NEW i \in DOMAIN history' PROVE confirmed'[history'[i]]
  <2>1. CASE i \in 1 .. n
    BY <1>4, <1>6, <1>7, <2>1
  <2>2. CASE i \in (n + 1) .. (n + Len(s))
    <3>1. i - n \in DOMAIN s /\ history'[i] = s[i - n]
      BY <1>2, <1>6, <2>2
    <3>2. QED
      BY <1>1, <1>4, <1>5, <3>1
  <2>3. QED
    BY <1>6, <2>1, <2>2
<1>11. Ordered'
  BY <1>9, <1>10 DEF Ordered
<1>12. Ahead'
  <2>1. SUFFICES ASSUME NEW f \in Frames, NEW g \in Frames, frame + 1 <= f, f <= g, confirmed'[g]
                 PROVE  confirmed'[f]
    BY DEF Ahead
  <2>2. CASE confirmed[g]
    BY <1>3, <1>4, <2>1, <2>2 DEF Inv, Ahead
  <2>3. CASE g \in done
    <3>1. f \in (frame + 1) .. g
      BY <1>3, <2>1
    <3>2. QED
      BY <1>1, <1>4, <2>3, <3>1
  <2>4. QED
    BY <1>4, <2>1, <2>2, <2>3
<1>13. QED
  BY <1>4, <1>6, <1>11, <1>12

\* Nothing is confirmed by anything but TryAdvance.
LEMMA FramesKept ==
  ASSUME Inv, UNCHANGED <<confirmed, history>>, frame' \in {frame, frame + 1}
  PROVE  Ordered' /\ Ahead'
<1>1. frame \in Nat /\ Frames \subseteq Nat
  BY RoomAssumption DEF Inv, TypeOK, Frames
<1>2. Ordered'
  BY DEF Inv, Ordered
<1>3. Ahead'
  BY <1>1 DEF Inv, Ahead
<1>4. QED
  BY <1>2, <1>3

-----------------------------------------------------------------------------
(* Every step keeps Inv.                                                   *)

LEMMA Begins == Init => Inv
<1> SUFFICES ASSUME Init PROVE Inv
  OBVIOUS
<1>1. Absent \in PlayerInfo
  BY DEF Absent, PlayerInfo, Team
<1>2. TypeOK
  BY <1>1, RoomAssumption DEF Init, TypeOK, PlayerInfo, BattleState, NoFrame
<1>3. Waits /\ ActivePresent /\ Ordered
  BY DEF Init, Waits, ActivePresent, Ordered
<1>4. Ahead
  BY DEF Init, Ahead
<1>5. Seated
  <2>1. Cardinality({}) = 0 /\ IsFiniteSet({}) /\ TeamSize \in Nat
    BY FS_EmptySet, RoomAssumption
  <2>2. QED
    BY <2>1 DEF Init, Seated, Seats
<1>6. QED
  BY <1>2, <1>3, <1>4, <1>5 DEF Inv

LEMMA EnterKeeps == \A p \in Players : Inv /\ OnPlayerEnter(p) => Inv'
<1> SUFFICES ASSUME NEW p \in Players, Inv, OnPlayerEnter(p) PROVE Inv'
  OBVIOUS
<1>1. /\ in' = in \cup {p}
      /\ info' = [info EXCEPT ![p] = [team |-> NextTeam, connected |-> TRUE, ready |-> FALSE]]
      /\ blue' = IF NextTeam = "Blue" THEN PushBack(blue, p) ELSE blue
      /\ red' = IF NextTeam = "Red" THEN PushBack(red, p) ELSE red
      /\ reentered' = IF p \in in THEN reentered \cup {p} ELSE reentered
      /\ overtaken' = IF disconnected[p] # NoFrame THEN overtaken \cup {p} ELSE overtaken
      /\ UNCHANGED <<state, frame, countdown, disconnected, crystals, current, active, all, inputs,
                     confirmed, startCount, history>>
      /\ ~Full /\ Cardinality(blue) + Cardinality(red) < MaxListed
  BY DEF OnPlayerEnter, lockstep
<1>2. /\ info' \in [Players -> PlayerInfo] /\ info'[p].connected
      /\ \A q \in Players : q # p => info'[q] = info[q]
  BY <1>1 DEF Inv, TypeOK, PlayerInfo, NextTeam, Team
<1>3. blue' \subseteq Players \X Nat /\ red' \subseteq Players \X Nat
  <2>1. ASSUME NEW list \in {blue, red} PROVE Cardinality(EntriesOf(list, p)) \in Nat
    <3>1. IsFiniteSet(EntriesOf(list, p))
      BY FS_Subset DEF Inv, Seated, EntriesOf
    <3>2. QED
      BY <3>1, FS_CardinalityType
  <2>2. QED
    BY <1>1, <2>1 DEF Inv, TypeOK, PushBack
<1>4. TypeOK'
  BY <1>1, <1>2, <1>3 DEF Inv, TypeOK, PlayerInfo
<1>5. Waits' /\ ActivePresent'
  BY <1>1, <1>2 DEF Inv, TypeOK, Waits, ActivePresent
<1>6. Ordered' /\ Ahead'
  BY <1>1, FramesKept
<1>7. QED
  BY <1>4, <1>5, <1>6, Entering DEF Inv

\* Leaving the battle, reporting ready and reconnecting change one player's flags.
LEMMA FlagsKeep ==
  \A p \in Players : Inv /\ (LeaveBattle(p) \/ OnBattleReady(p) \/ OnPlayerReconnect(p)) => Inv'
<1> SUFFICES ASSUME NEW p \in Players, Inv,
                    LeaveBattle(p) \/ OnBattleReady(p) \/ OnPlayerReconnect(p)
             PROVE  Inv'
  OBVIOUS
<1>1. /\ p \in in
      /\ UNCHANGED <<state, frame, countdown, in, blue, red, crystals, current, all, inputs,
                     confirmed, startCount, history, reentered, overtaken>>
  BY DEF LeaveBattle, OnBattleReady, OnPlayerReconnect, entered, lockstep
<1>2. \/ /\ state = "Fighting" /\ info' = [info EXCEPT ![p].connected = FALSE]
         /\ disconnected' = [disconnected EXCEPT ![p] = frame] /\ active' = active \ {p}
      \/ info' = [info EXCEPT ![p].ready = TRUE] /\ UNCHANGED <<disconnected, active>>
      \/ /\ info' = [info EXCEPT ![p].connected = TRUE]
         /\ disconnected' = [disconnected EXCEPT ![p] = NoFrame]
         /\ active' = IF p \in all THEN active \cup {p} ELSE active
  BY DEF LeaveBattle, OnBattleReady, OnPlayerReconnect, PlayerDisconnected, PlayerReconnected, lockstep
<1>3. /\ info \in [Players -> PlayerInfo] /\ disconnected \in [Players -> 0 .. NoFrame]
      /\ frame \in 0 .. NoFrame /\ NoFrame \in 0 .. NoFrame /\ in \subseteq Players
      /\ active \subseteq Players
  BY RoomAssumption DEF Inv, TypeOK, PlayerInfo, NoFrame
<1>4. /\ info' \in [Players -> PlayerInfo] /\ disconnected' \in [Players -> 0 .. NoFrame]
      /\ active' \subseteq Players
  <2>1. info' \in [Players -> PlayerInfo]
    BY <1>2, <1>3 DEF PlayerInfo
  <2>2. disconnected' \in [Players -> 0 .. NoFrame]
    BY <1>2, <1>3
  <2>3. active' \subseteq Players
    BY <1>2, <1>3
  <2>4. QED
    BY <2>1, <2>2, <2>3
<1>5. \A q \in Players : info'[q].team = info[q].team /\ (q # p => info'[q] = info[q])
  BY <1>2, <1>3 DEF PlayerInfo
<1>6. TypeOK'
  BY <1>1, <1>4 DEF Inv, TypeOK, PlayerInfo
<1>7. Waits' /\ ActivePresent'
  <2>1. CASE /\ state = "Fighting" /\ info' = [info EXCEPT ![p].connected = FALSE]
             /\ disconnected' = [disconnected EXCEPT ![p] = frame] /\ active' = active \ {p}
    BY <1>1, <1>3, <1>5, <2>1 DEF Inv, Waits, ActivePresent, PlayerInfo
  <2>2. CASE info' = [info EXCEPT ![p].ready = TRUE] /\ UNCHANGED <<disconnected, active>>
    <3>1. \A q \in Players : info'[q].connected = info[q].connected
      BY <1>3, <2>2 DEF PlayerInfo
    <3>2. QED
      BY <1>1, <1>3, <2>2, <3>1 DEF Inv, Waits, ActivePresent
  <2>3. CASE /\ info' = [info EXCEPT ![p].connected = TRUE]
             /\ disconnected' = [disconnected EXCEPT ![p] = NoFrame]
             /\ active' = IF p \in all THEN active \cup {p} ELSE active
    <3>1. info'[p].connected /\ disconnected'[p] = NoFrame
      BY <1>3, <2>3 DEF PlayerInfo
    <3>2. \A q \in Players : q # p => disconnected'[q] = disconnected[q]
      BY <1>3, <2>3
    <3>3. QED
      BY <1>1, <1>3, <1>5, <2>3, <3>1, <3>2 DEF Inv, Waits, ActivePresent
  <2>4. QED
    BY <1>2, <2>1, <2>2, <2>3
<1>8. Ordered' /\ Ahead'
  BY <1>1, FramesKept
<1>9. Seated'
  BY <1>1, <1>3, <1>5, SeatsKept DEF Inv
<1>10. QED
  BY <1>6, <1>7, <1>8, <1>9 DEF Inv

LEMMA LeaveKeeps == \A p \in Players : Inv /\ LeaveRoom(p) => Inv'
<1> SUFFICES ASSUME NEW p \in Players, Inv, LeaveRoom(p) PROVE Inv'
  OBVIOUS
<1>1. /\ state # "Fighting" /\ RemovePlayers({p})
      /\ UNCHANGED <<state, frame, countdown, disconnected, crystals, current, active, all, inputs,
                     confirmed, startCount, history, reentered, overtaken>>
  BY DEF LeaveRoom, entered, lockstep
<1>2. /\ in' = in \ {p} /\ blue' \subseteq blue /\ red' \subseteq red
      /\ info' \in [Players -> PlayerInfo]
      /\ \A q \in Players : q \notin {p} \cap in => info'[q] = info[q]
      /\ Seated'
  BY <1>1, Removing
<1>3. TypeOK'
  BY <1>1, <1>2 DEF Inv, TypeOK, PlayerInfo
<1>4. Waits' /\ ActivePresent'
  BY <1>1, <1>2 DEF Inv, TypeOK, Waits, ActivePresent
<1>5. Ordered' /\ Ahead'
  BY <1>1, FramesKept
<1>6. QED
  BY <1>2, <1>3, <1>4, <1>5 DEF Inv

LEMMA SubmitKeeps == \A p \in Players : Inv /\ SubmitInput(p) => Inv'
<1> SUFFICES ASSUME NEW p \in Players, Inv, SubmitInput(p) PROVE Inv'
  OBVIOUS
<1>1. /\ inputs' = [inputs EXCEPT ![current] = @ \cup {p}]
      /\ UNCHANGED <<state, frame, countdown, in, info, blue, red, disconnected, crystals, current,
                     active, all, confirmed, startCount, history, reentered, overtaken>>
  BY DEF SubmitInput, roomVars, entered
<1>2. current \in Frames
  BY RoomAssumption DEF Inv, TypeOK, Frames
<1>3. TypeOK'
  BY <1>1, <1>2 DEF Inv, TypeOK
<1>4. Waits' /\ ActivePresent' /\ Ordered' /\ Ahead'
  BY <1>1, FramesKept DEF Inv, Waits, ActivePresent
<1>5. Seated'
  BY <1>1, SeatsKept DEF Inv
<1>6. QED
  BY <1>3, <1>4, <1>5 DEF Inv

\* The ticks before and after the battle.
LEMMA IdleTickKeeps == Inv /\ (TickWaiting \/ TickLoading \/ TickFinished) => Inv'
<1> SUFFICES ASSUME Inv, TickWaiting \/ TickLoading \/ TickFinished PROVE Inv'
  OBVIOUS
<1>1. /\ frame < MaxFrame /\ frame' = frame + 1
      /\ UNCHANGED <<in, info, blue, red, disconnected, current, active, all, inputs, confirmed,
                     startCount, history, reentered, overtaken>>
      /\ \/ state = "Waiting" /\ state' \in {"Waiting", "Loading"} /\ UNCHANGED <<countdown, crystals>>
         \/ state = "Loading" /\ state' = "Loading" /\ UNCHANGED <<countdown, crystals>>
         \/ state = "Loading" /\ state' = "Countdown" /\ countdown' = CountdownTicks /\ crystals' = Team
         \/ state = "Finished" /\ state' = "Finished" /\ UNCHANGED <<countdown, crystals>>
  BY DEF TickWaiting, TickLoading, TickFinished, TickFrame, InitBattleScene, roomVars, entered, lockstep
<1>2. TypeOK'
  BY <1>1, RoomAssumption DEF Inv, TypeOK, BattleState
<1>3. Waits' /\ ActivePresent'
  BY <1>1, RoomAssumption DEF Inv, Waits, ActivePresent
<1>4. Ordered' /\ Ahead'
  BY <1>1, FramesKept
<1>5. Seated'
  BY <1>1, SeatsKept DEF Inv
<1>6. QED
  BY <1>2, <1>3, <1>4, <1>5 DEF Inv

\* The battle starts with the players that are connected.
LEMMA CountdownKeeps == Inv /\ TickCountdown => Inv'
<1> SUFFICES ASSUME Inv, TickCountdown PROVE Inv'
  OBVIOUS
<1> DEFINE present == {p \in in : info[p].connected}
<1>1. /\ state = "Countdown" /\ frame < MaxFrame /\ frame' = frame + 1
      /\ countdown' = countdown - 1
      /\ state' = IF countdown' = 0 THEN "Fighting" ELSE state
      /\ active' = IF countdown' = 0 THEN present ELSE active
      /\ all' = IF countdown' = 0 THEN present ELSE all
      /\ UNCHANGED <<in, info, blue, red, disconnected, crystals, current, inputs, confirmed,
                     startCount, history, reentered, overtaken>>
  BY DEF TickCountdown, TickFrame, roomVars, entered
<1>2. countdown > 0 /\ countdown \in 0 .. CountdownTicks /\ CountdownTicks \in Nat
  BY <1>1, RoomAssumption DEF Inv, TypeOK, Waits
<1>3. countdown' \in 0 .. CountdownTicks /\ (countdown' # 0 => countdown' > 0)
  BY <1>1, <1>2
<1>4. TypeOK'
  BY <1>1, <1>3, RoomAssumption DEF Inv, TypeOK, BattleState
<1>5. Waits' /\ ActivePresent'
  BY <1>1, <1>3 DEF Inv, TypeOK, Waits, ActivePresent
<1>6. Ordered' /\ Ahead'
  BY <1>1, FramesKept
<1>7. Seated'
  BY <1>1, SeatsKept DEF Inv
<1>8. QED
  BY <1>4, <1>5, <1>6, <1>7 DEF Inv

\* Only players with a running wait expire, and no active one has it.
LEMMA FightingKeeps == \A fallen \in TickCombat : Inv /\ TickFighting(fallen) => Inv'
<1> SUFFICES ASSUME NEW fallen \in TickCombat, Inv, TickFighting(fallen) PROVE Inv'
  OBVIOUS
<1> DEFINE now == frame + 1
           start == [startCount EXCEPT ![now] = now]
           done == TryAdvance(now, start)
           E == Expired(now)
<1>1. /\ state = "Fighting" /\ frame < MaxFrame /\ frame' = now /\ current' = now
      /\ startCount' = start
      /\ confirmed' = [f \in Frames |-> confirmed[f] \/ f \in done]
      /\ inputs' = [f \in Frames |-> IF f \in done THEN inputs[f] \cup active ELSE inputs[f]]
      /\ history' = history \o InOrder(done)
      /\ crystals' = crystals \ fallen
      /\ state' \in {"Fighting", "Finished"}
      /\ RemovePlayers(E)
      /\ disconnected' = [p \in Players |-> IF p \in E THEN NoFrame ELSE disconnected[p]]
      /\ UNCHANGED <<countdown, active, all, reentered, overtaken>>
  BY DEF TickFighting, TickFrame, entered
<1>2. /\ now \in 0 .. MaxFrame /\ now \in Frames /\ start \in [Frames -> 0 .. MaxFrame]
      /\ NoFrame \in 0 .. NoFrame
  BY <1>1, RoomAssumption DEF Inv, TypeOK, Frames, NoFrame
<1>3. /\ E \subseteq Players /\ \A p \in E : disconnected[p] # NoFrame
  BY DEF Expired
<1>4. /\ in' = in \ E /\ blue' \subseteq blue /\ red' \subseteq red
      /\ info' \in [Players -> PlayerInfo]
      /\ \A p \in Players : p \notin E \cap in => info'[p] = info[p]
      /\ Seated'
  BY <1>1, <1>3, Removing
<1> HIDE DEF E, start, done
<1>5. confirmed' \in [Frames -> BOOLEAN] /\ history' \in Seq(Frames) /\ Ordered' /\ Ahead'
  BY <1>1, Confirming DEF done
<1> HIDE DEF now
<1>6. TypeOK'
  <2>1. /\ state' \in BattleState /\ frame' \in 0 .. MaxFrame /\ current' \in 0 .. MaxFrame
        /\ countdown' \in 0 .. CountdownTicks /\ in' \subseteq Players /\ crystals' \subseteq Team
        /\ active' \subseteq Players /\ all' \subseteq Players
        /\ reentered' \subseteq Players /\ overtaken' \subseteq Players
        /\ blue' \subseteq Players \X Nat /\ red' \subseteq Players \X Nat
    BY <1>1, <1>2, <1>4 DEF Inv, TypeOK, BattleState
  <2>2. /\ disconnected' \in [Players -> 0 .. NoFrame]
        /\ inputs' \in [Frames -> SUBSET Players] /\ startCount' \in [Frames -> 0 .. MaxFrame]
    BY <1>1, <1>2 DEF Inv, TypeOK
  <2>3. QED
    BY <1>4, <1>5, <2>1, <2>2 DEF TypeOK, PlayerInfo
<1>7. Waits' /\ ActivePresent'
  BY <1>1, <1>3, <1>4 DEF Inv, TypeOK, Waits, ActivePresent
<1>8. QED
  BY <1>4, <1>5, <1>6, <1>7 DEF Inv

LEMMA Preserved == Inv /\ [Next]_vars => Inv'
<1> SUFFICES ASSUME Inv, [Next]_vars PROVE Inv'
  OBVIOUS
<1>1. CASE UNCHANGED vars
  <2>1. UNCHANGED <<state, frame, countdown, in, info, blue, red, disconnected, crystals, current,
                    active, all, inputs, confirmed, startCount, history, reentered, overtaken>>
    BY <1>1 DEF vars
  <2>2. TypeOK' /\ Waits' /\ ActivePresent'
    BY <2>1 DEF Inv, TypeOK, Waits, ActivePresent
  <2>3. Ordered' /\ Ahead' /\ Seated'
    BY <2>1, FramesKept, SeatsKept DEF Inv
  <2>4. QED
    BY <2>2, <2>3 DEF Inv
<1>2. CASE Next
  BY <1>2, EnterKeeps, FlagsKeep, LeaveKeeps, SubmitKeeps, IdleTickKeeps, CountdownKeeps,
     FightingKeeps DEF Next
<1>3. QED
  BY <1>1, <1>2

LEMMA Invariance == Spec => []Inv
  BY Begins, Preserved, PTL DEF Spec

\* Room and engine keep their types through entries, battles and expiries.
THEOREM Typed == Spec => []TypeOK
<1>1. Inv => TypeOK
  BY DEF Inv
<1>2. QED
  BY <1>1, Invariance, PTL

\* OnPlayerEnter's choice of the smaller list keeps both teams within the team
\* size, however players leave and expire, as long as nobody enters twice.
THEOREM TeamsLevel == Spec => []TeamsFit
<1>1. Inv => TeamsFit
  <2>1. SUFFICES ASSUME Inv, reentered = {}
                 PROVE  /\ Cardinality(blue) <= TeamSize /\ Cardinality(red) <= TeamSize
                        /\ Cardinality(blue) + Cardinality(red) = Cardinality(in)
                        /\ \A p \in in : EntriesOf(IF info[p].team = "Blue" THEN blue ELSE red, p) # {}
    BY DEF TeamsFit
  <2>2. /\ blue = Seats("Blue") /\ red = Seats("Red")
        /\ Cardinality(blue) <= TeamSize /\ Cardinality(red) <= TeamSize
    BY <2>1 DEF Inv, Seated
  <2>3. Cardinality(blue) + Cardinality(red) = Cardinality(in)
    BY <2>1, <2>2, Counting DEF Inv, Seated
  <2>4. ASSUME NEW p \in in PROVE EntriesOf(IF info[p].team = "Blue" THEN blue ELSE red, p) # {}
    <3>1. info[p].team \in {"Blue", "Red"}
      BY <2>1 DEF Inv, TypeOK, Team
    <3>2. <<p, 0>> \in (IF info[p].team = "Blue" THEN blue ELSE red)
      BY <2>2, <3>1 DEF Seats
    <3>3. QED
      BY <3>2 DEF EntriesOf
  <2>5. QED
    BY <2>2, <2>3, <2>4
<1>2. QED
  BY <1>1, Invariance, PTL

\* The lockstep engine waits for nobody who left the battle.
THEOREM WaitsForPresent == Spec => []ActivePresent
<1>1. Inv => ActivePresent
  BY DEF Inv
<1>2. QED
  BY <1>1, Invariance, PTL

\* frame_history_ holds every frame once, in order, although TryAdvance runs
\* ahead of the ticks and skips what it confirmed before.
THEOREM HistoryInOrder == Spec => []ConfirmedInOrder
<1>1. Inv => ConfirmedInOrder
  <2>1. SUFFICES ASSUME Inv, NEW i \in 1 .. (Len(history) - 1) PROVE history[i] < history[i + 1]
    BY DEF ConfirmedInOrder
  <2>2. history \in Seq(Frames)
    BY <2>1 DEF Inv, TypeOK
  <2>3. i \in DOMAIN history /\ i + 1 \in DOMAIN history /\ i < i + 1
    BY <2>2
  <2>4. QED
    BY <2>1, <2>3 DEF Inv, Ordered
<1>2. QED
  BY <1>1, Invariance, PTL

\* A tick takes out only players whose wait for a reconnection is over: nobody
\* who is connected, unless it entered over its own wait.
THEOREM PresentStay == Spec => KeepsPresent
<1> DEFINE Stay == \A p \in Players :
                     p \in in /\ info[p].connected /\ p \notin overtaken /\ p \notin in' => frame' = frame
<1>1. Inv /\ [Next]_vars => [Stay]_vars
  <2> SUFFICES ASSUME Inv, Next PROVE Stay
    OBVIOUS
  <2>1. ASSUME in \subseteq in' \/ frame' = frame PROVE Stay
    BY <2>1
  <2>2. CASE \E fallen \in TickCombat : TickFighting(fallen)
    <3>1. in' = in \ Expired(frame + 1)
      BY <2>2 DEF TickFighting, RemovePlayers
    <3>2. \A p \in Expired(frame + 1) : disconnected[p] # NoFrame
      BY DEF Expired
    <3>3. QED
      BY <3>1, <3>2 DEF Inv, Waits
  <2>3. ASSUME NEW p \in Players,
               \/ OnPlayerEnter(p) \/ LeaveBattle(p) \/ LeaveRoom(p)
               \/ OnBattleReady(p) \/ OnPlayerReconnect(p) \/ SubmitInput(p)
        PROVE  frame' = frame
    BY <2>3 DEF OnPlayerEnter, LeaveBattle, LeaveRoom, OnBattleReady, OnPlayerReconnect, SubmitInput
  <2>4. ASSUME TickWaiting \/ TickLoading \/ TickCountdown \/ TickFinished PROVE in' = in
    BY <2>4 DEF TickWaiting, TickLoading, TickCountdown, TickFinished, roomVars
  <2>5. QED
    BY <2>1, <2>2, <2>3, <2>4 DEF Next
<1>2. QED
  BY <1>1, Invariance, PTL DEF Spec, KeepsPresent
=============================================================================
