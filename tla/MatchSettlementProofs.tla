----------------------- MODULE MatchSettlementProofs -----------------------
(***************************************************************************)
(* Theorems about MatchSettlement, for any number of matches, any channel  *)
(* capacity and any number of crashes and changes of leader, with failing  *)
(* saves and loads.                                                        *)
(***************************************************************************)
EXTENDS MatchSettlement, SequenceTheorems, FiniteSetTheorems, TLAPS

\* Nobody holds a pointer to an object that is not there; the map of matches
\* finds objects by their ID.
Pointers ==
    /\ \A k \in loaded : obj[k] # None /\ obj[k].id = 0
    /\ \A k \in Range(notifyCh) : obj[k] # None
    /\ IF tick \in {"save", "push"} THEN tcur # None /\ obj[tcur] # None ELSE tcur = None
    /\ IF drive \in {"drive", "delete"} THEN dcur # None /\ obj[dcur] # None ELSE dcur = None
    /\ \A k \in Keys : matches[k] # None => obj[matches[k]] # None /\ obj[matches[k]].id = k

\* Only a leader, or one that is stepping down, runs the goroutines.
Phases ==
    /\ proc \in {"down", "recover", "follower"} => tick = "off" /\ drive = "off"
    /\ proc = "down" => /\ notifyCh = <<>> /\ loaded = {}
                        /\ \A k \in Keys : matches[k] = None /\ obj[k] = None
    /\ proc = "recover" => \A k \in Keys : obj[k] # None => obj[k].id = 0
    /\ proc # "recover" => todo = {}

\* An object is found under its match, or was loaded from the shared key; with
\* the ID 0 it comes from a record.
Objects ==
    \A k \in Keys : obj[k] # None =>
        /\ obj[k].of \in used /\ obj[k].id \in {0, k}
        /\ k # 0 => obj[k].of = k
        /\ obj[k].id = 0 => obj[k].of \in saved

\* A record is about a match that was saved, under its own key or under 0, and
\* not in a terminal state.
Records ==
    \A k \in Keys : record[k] # None =>
        /\ record[k].of \in saved
        /\ k # 0 => record[k].of = k
        /\ record[k].state \in {"confirmed", "room_prep", "notifying"}

\* The record under a match's own key outlives the match's settlement, unless
\* its TTL ran out.
Kept ==
    /\ \A m \in saved \ (settled \cup expired) : record[m] # None
    /\ drive = "delete" => obj[dcur].of \in settled

Inv == TypeOK /\ Pointers /\ Phases /\ Objects /\ Records /\ Kept

\* Some goroutine still has object x and will drive it on.
Held(x) == x \in InHand /\ ~IsTerminal(obj[x].state)

\* Objects with the ID 0 that anybody can reach were loaded by Recover, and
\* those it has not pushed yet are known to nobody else.
Reached ==
    /\ \A k \in InHand : k # None /\ obj[k].id = 0 => k \in loaded
    /\ matches[0] # None => matches[0] \in loaded \ todo
    /\ Range(notifyCh) \cap todo = {}

Alone == \A x, y \in loaded : x = y

\* No object that counts is out of everybody's hands before its players were
\* told; while Recover runs, none at all.
Handled ==
    /\ proc = "recover" => \A x \in loaded : Held(x)
    /\ Alone => \A x \in Keys : obj[x] # None /\ (x \in loaded \/ obj[x].id # 0)
                                  => obj[x].of \in settled \/ Held(x)

DropInv == Reached /\ Handled /\ IsFiniteSet(used)
-----------------------------------------------------------------------------
(* The channel and the map.                                                *)

\* A send adds an object at the end, a receive takes the first.
LEMMA Channel ==
  ASSUME notifyCh \in Seq(Keys)
  PROVE  /\ \A k \in Keys : /\ Append(notifyCh, k) \in Seq(Keys)
                            /\ Range(Append(notifyCh, k)) = Range(notifyCh) \cup {k}
         /\ notifyCh # <<>> =>
              /\ Head(notifyCh) \in Keys /\ Tail(notifyCh) \in Seq(Keys)
              /\ Range(notifyCh) = Range(Tail(notifyCh)) \cup {Head(notifyCh)}
         /\ Range(notifyCh) \subseteq Keys
         /\ Range(<<>>) = {}
<1>1. ASSUME NEW k \in Keys
      PROVE  /\ Append(notifyCh, k) \in Seq(Keys)
             /\ Range(Append(notifyCh, k)) = Range(notifyCh) \cup {k}
  <2>1. /\ Append(notifyCh, k) \in Seq(Keys)
        /\ DOMAIN notifyCh = 1 .. Len(notifyCh) /\ Len(notifyCh) \in Nat
        /\ DOMAIN Append(notifyCh, k) = 1 .. (Len(notifyCh) + 1)
        /\ \A i \in 1 .. Len(notifyCh) : Append(notifyCh, k)[i] = notifyCh[i]
        /\ Append(notifyCh, k)[Len(notifyCh) + 1] = k
    BY AppendProperties
  <2>2. QED
    BY <2>1 DEF Range
<1>2. ASSUME notifyCh # <<>>
      PROVE  /\ Head(notifyCh) \in Keys /\ Tail(notifyCh) \in Seq(Keys)
             /\ Range(notifyCh) = Range(Tail(notifyCh)) \cup {Head(notifyCh)}
  <2>1. /\ Head(notifyCh) \in Keys /\ Tail(notifyCh) \in Seq(Keys)
        /\ DOMAIN notifyCh = 1 .. Len(notifyCh) /\ Len(notifyCh) \in Nat \ {0}
        /\ Head(notifyCh) = notifyCh[1]
        /\ DOMAIN Tail(notifyCh) = 1 .. (Len(notifyCh) - 1)
        /\ \A i \in 1 .. (Len(notifyCh) - 1) : Tail(notifyCh)[i] = notifyCh[i + 1]
    BY <1>2, HeadTailProperties, EmptySeq
  <2>2. Range(Tail(notifyCh)) \cup {Head(notifyCh)} \subseteq Range(notifyCh)
    BY <2>1 DEF Range
  <2>3. ASSUME NEW i \in 1 .. Len(notifyCh)
        PROVE  notifyCh[i] \in Range(Tail(notifyCh)) \cup {Head(notifyCh)}
    <3>1. CASE i = 1
      BY <2>1, <3>1
    <3>2. CASE i # 1
      <4>1. i - 1 \in 1 .. (Len(notifyCh) - 1) /\ Tail(notifyCh)[i - 1] = notifyCh[i]
        BY <2>1, <2>3, <3>2
      <4>2. QED
        BY <2>1, <4>1 DEF Range
    <3>3. QED
      BY <3>1, <3>2
  <2>4. QED
    BY <2>1, <2>2, <2>3 DEF Range
<1>3. Range(notifyCh) \subseteq Keys /\ Range(<<>>) = {}
  BY DEF Range
<1>4. QED
  BY <1>1, <1>2, <1>3

\* What driveForward's two assignments do: m.State, and the object the map has
\* under m.ID where the table allows it. No other field changes.
LEMMA Advancing ==
  ASSUME Inv, NEW k \in Keys, obj[k] # None, NEW st \in MatchState, obj' = Advance(k, st)
  PROVE  /\ obj' \in [Keys -> Object \cup {None}]
         /\ \A x \in Keys :
              /\ obj'[x] = None <=> obj[x] = None
              /\ obj[x] # None =>
                   /\ obj'[x].of = obj[x].of /\ obj'[x].id = obj[x].id
                   /\ x = k => obj'[x].state = st
                   /\ x # k => \/ obj'[x].state = obj[x].state
                               \/ /\ x = matches[obj[k].id] /\ obj'[x].state = st
                                  /\ CanMatchTransitionTo(obj[x].state, st)
<1> DEFINE o == UpdateMatchState(obj, obj[k].id, st)
<1>1. obj \in [Keys -> Object \cup {None}] /\ obj[k] \in Object /\ obj[k].id \in Keys
  BY DEF Inv, TypeOK, Object
<1>2. matches[obj[k].id] # None =>
        /\ matches[obj[k].id] \in Keys
        /\ obj[matches[obj[k].id]] \in Object
  BY <1>1 DEF Inv, TypeOK, Pointers
<1>3. \A x \in Object : /\ [x EXCEPT !.state = st] \in Object
                        /\ [x EXCEPT !.state = st].of = x.of
                        /\ [x EXCEPT !.state = st].id = x.id
                        /\ [x EXCEPT !.state = st].state = st
  BY DEF Object
<1>4. None \notin Object
  BY NilAssumption
<1>5. /\ o \in [Keys -> Object \cup {None}]
      /\ \A x \in Keys :
           \/ o[x] = obj[x]
           \/ /\ x = matches[obj[k].id] /\ obj[x] \in Object /\ o[x] = [obj[x] EXCEPT !.state = st]
              /\ CanMatchTransitionTo(obj[x].state, st)
  BY <1>1, <1>2, <1>3 DEF UpdateMatchState
<1>6. o[k] \in Object /\ o[k].of = obj[k].of /\ o[k].id = obj[k].id
  BY <1>1, <1>3, <1>5
<1>7. obj' = [o EXCEPT ![k] = [o[k] EXCEPT !.state = st]]
  BY <1>1, <1>5 DEF Advance
<1> HIDE DEF o
<1>8. obj' \in [Keys -> Object \cup {None}]
  BY <1>3, <1>5, <1>6, <1>7
<1>9. ASSUME NEW x \in Keys
      PROVE /\ obj'[x] = None <=> obj[x] = None
            /\ obj[x] # None =>
                 /\ obj'[x].of = obj[x].of /\ obj'[x].id = obj[x].id
                 /\ x = k => obj'[x].state = st
                 /\ x # k => \/ obj'[x].state = obj[x].state
                             \/ /\ x = matches[obj[k].id] /\ obj'[x].state = st
                                /\ CanMatchTransitionTo(obj[x].state, st)
  <2>1. CASE x = k
    BY <2>1, <1>1, <1>3, <1>4, <1>5, <1>6, <1>7
  <2>2. CASE x # k
    <3>1. obj'[x] = o[x]
      BY <1>5, <1>7, <2>2
    <3>2. CASE o[x] = obj[x]
      BY <2>2, <3>1, <3>2
    <3>3. CASE /\ x = matches[obj[k].id] /\ obj[x] \in Object /\ o[x] = [obj[x] EXCEPT !.state = st]
               /\ CanMatchTransitionTo(obj[x].state, st)
      BY <1>3, <1>4, <2>2, <3>1, <3>3
    <3>4. QED
      BY <1>5, <3>2, <3>3
  <2>3. QED
    BY <2>1, <2>2
<1>10. QED
  BY <1>8, <1>9
-----------------------------------------------------------------------------
(* Every step keeps Inv.                                                   *)

LEMMA Begins == Init => Inv
<1>1. ASSUME Init PROVE Inv
  <2>1. TypeOK
    BY <1>1, BoundsAssumption DEF Init, TypeOK
  <2>2. Pointers /\ Phases /\ Objects /\ Records /\ Kept
    BY <1>1 DEF Init, Pointers, Phases, Objects, Records, Kept, Range
  <2>3. QED
    BY <2>1, <2>2 DEF Inv
<1>2. QED
  BY <1>1

\* Recover's objects are copies of the records it could read, without the ID.
LEMMA LoadKeeps == Inv /\ LoadActiveMatches => Inv'
<1> SUFFICES ASSUME Inv, NEW ks \in SUBSET Stored, Load(ks, Stored \ ks) PROVE Inv'
  BY DEF LoadActiveMatches
<1>1. /\ proc = "down" /\ proc' = "recover" /\ todo' = ks /\ loaded' = ks
      /\ lost' = lost \cup Recorded(Stored \ ks)
                      \cup IF Cardinality(ks) > 1 THEN Recorded(ks) ELSE {}
      /\ obj' = [k \in Keys |-> IF k \in ks
                                THEN [of |-> record[k].of, id |-> 0, state |-> record[k].state]
                                ELSE None]
      /\ UNCHANGED <<record, used, saved, expired, settled, crashes, session, matches, notifyCh,
                     tick, tcur, drive, dcur>>
  BY DEF Load, redis, tickVars, driveVars
<1>2. /\ ks \subseteq Keys
      /\ \A k \in ks : record[k] \in Record /\ record[k].of \in saved /\ (k # 0 => record[k].of = k)
      /\ \A k \in Keys : matches[k] = None
      /\ tick = "off" /\ drive = "off" /\ tcur = None /\ dcur = None /\ notifyCh = <<>>
  BY <1>1 DEF Inv, TypeOK, Records, Phases, Pointers, Stored
<1>3. Recorded(ks) \subseteq saved /\ Recorded(Stored \ ks) \subseteq saved
  BY <1>2 DEF Recorded, Stored, Inv, Records
<1>4. \A k \in ks : /\ obj'[k] \in Object /\ obj'[k] # None /\ obj'[k].id = 0
                    /\ obj'[k].of = record[k].of
  BY <1>1, <1>2, NilAssumption DEF Record, Object, Keys
<1>5. \A k \in Keys : obj'[k] # None => k \in ks
  BY <1>1
<1>6. TypeOK'
  <2>1. obj' \in [Keys -> Object \cup {None}]
    BY <1>1, <1>4
  <2>2. lost' \subseteq saved
    BY <1>1, <1>3 DEF Inv, TypeOK
  <2>3. QED
    BY <1>1, <1>2, <2>1, <2>2 DEF Inv, TypeOK
<1>7. Pointers' /\ Phases'
  BY <1>1, <1>2, <1>4, <1>5 DEF Pointers, Phases, Range
<1>8. Objects'
  BY <1>1, <1>2, <1>4, <1>5 DEF Inv, TypeOK, Objects
<1>9. Records' /\ Kept'
  BY <1>1, <1>2 DEF Inv, Records, Kept
<1>10. QED
  BY <1>6, <1>7, <1>8, <1>9 DEF Inv

LEMMA LoadFailsKeeps == Inv /\ LoadFails => Inv'
<1> SUFFICES ASSUME Inv, LoadFails PROVE Inv'
  OBVIOUS
<1>1. /\ proc = "down" /\ proc' = "follower" /\ lost' = lost \cup Recorded(Keys)
      /\ UNCHANGED <<record, used, saved, expired, settled, crashes, session, todo, loaded, obj,
                     matches, notifyCh, tick, tcur, drive, dcur>>
  BY DEF LoadFails, redis, election, mem, tickVars, driveVars
<1>2. Recorded(Keys) \subseteq saved
  BY DEF Inv, Records, Recorded
<1>3. TypeOK'
  BY <1>1, <1>2 DEF Inv, TypeOK
<1>4. Pointers' /\ Phases' /\ Objects' /\ Records' /\ Kept'
  BY <1>1 DEF Inv, Pointers, Phases, Objects, Records, Kept, Range
<1>5. QED
  BY <1>3, <1>4 DEF Inv

LEMMA RecoverMatchKeeps == \A k \in Keys : Inv /\ RecoverMatch(k) => Inv'
<1> SUFFICES ASSUME NEW k \in Keys, Inv, RecoverMatch(k) PROVE Inv'
  OBVIOUS
<1>1. /\ proc = "recover" /\ k \in todo
      /\ matches' = [matches EXCEPT ![obj[k].id] = k]
      /\ notifyCh' = Append(notifyCh, k) /\ todo' = todo \ {k}
      /\ UNCHANGED <<record, used, saved, expired, settled, crashes, session, proc, loaded, lost, obj,
                     tick, tcur, drive, dcur>>
  BY DEF RecoverMatch, redis, election, tickVars, driveVars
<1>2. obj[k] # None /\ obj[k].id = 0 /\ 0 \in Keys
  BY <1>1 DEF Inv, TypeOK, Pointers, Keys
<1>3. notifyCh' \in Seq(Keys) /\ Range(notifyCh') = Range(notifyCh) \cup {k}
  BY <1>1, Channel DEF Inv, TypeOK
<1>4. TypeOK'
  BY <1>1, <1>2, <1>3 DEF Inv, TypeOK
<1>5. Pointers'
  BY <1>1, <1>2, <1>3 DEF Inv, TypeOK, Pointers
<1>6. Phases' /\ Objects' /\ Records' /\ Kept'
  BY <1>1 DEF Inv, Phases, Objects, Records, Kept
<1>7. QED
  BY <1>4, <1>5, <1>6 DEF Inv

\* A recovered match has the ID 0: only the record under 0 goes.
LEMMA DiscardKeeps == \A k \in Keys : Inv /\ DiscardStale(k) => Inv'
<1> SUFFICES ASSUME NEW k \in Keys, Inv, DiscardStale(k) PROVE Inv'
  OBVIOUS
<1>1. /\ proc = "recover" /\ k \in todo
      /\ record' = [record EXCEPT ![obj[k].id] = None]
      /\ todo' = todo \ {k} /\ loaded' = loaded \ {k} /\ lost' = lost \cup {obj[k].of}
      /\ UNCHANGED <<used, saved, expired, settled, crashes, session, proc, obj, matches, notifyCh,
                     tick, tcur, drive, dcur>>
  BY DEF DiscardStale, DeleteMatchRecord, election, mem, tickVars, driveVars
<1>2. obj[k] # None /\ obj[k].id = 0 /\ 0 \in Keys /\ obj[k].of \in saved
  BY <1>1 DEF Inv, TypeOK, Pointers, Objects, Keys
<1>3. TypeOK'
  BY <1>1, <1>2 DEF Inv, TypeOK
<1>4. Pointers' /\ Phases' /\ Objects'
  BY <1>1 DEF Inv, TypeOK, Pointers, Phases, Objects, Range
<1>5. Records'
  BY <1>1, <1>2 DEF Inv, TypeOK, Records
<1>6. Kept'
  BY <1>1, <1>2, MatchIDsAssumption DEF Inv, TypeOK, Kept, Keys
<1>7. QED
  BY <1>3, <1>4, <1>5, <1>6 DEF Inv

\* Steps that move a process or a loop on and nothing else.
LEMMA ControlKeeps ==
  Inv /\ (RecoverDone \/ Election \/ TickDone \/ TickExit \/ SettlementExit) => Inv'
<1> SUFFICES ASSUME Inv,
                    RecoverDone \/ Election \/ TickDone \/ TickExit \/ SettlementExit
             PROVE  Inv'
  OBVIOUS
<1>1. /\ UNCHANGED <<record, used, saved, expired, settled, crashes, todo, loaded, lost, obj, matches,
                     notifyCh, tcur, dcur>>
      /\ session' \in BOOLEAN
      /\ \/ proc = "recover" /\ todo = {} /\ proc' = "follower" /\ UNCHANGED <<tick, drive>>
         \/ proc = "follower" /\ proc' = "leader" /\ tick' = "idle" /\ drive' = "idle"
         \/ proc = "leader" /\ proc' = "stopping" /\ UNCHANGED <<tick, drive>>
         \/ /\ proc = "stopping" /\ proc' = "follower" /\ tick = "off" /\ drive = "off"
            /\ UNCHANGED <<tick, drive>>
         \/ UNCHANGED <<proc, tick, drive>>
         \/ tick = "more" /\ tick' = "idle" /\ UNCHANGED <<proc, drive>>
         \/ proc = "stopping" /\ tick = "idle" /\ tick' = "off" /\ UNCHANGED <<proc, drive>>
         \/ proc = "stopping" /\ drive = "idle" /\ drive' = "off" /\ UNCHANGED <<proc, tick>>
  BY DEF Inv, TypeOK, RecoverDone, Election, Promote, LoseSession, Demote, Stopped, TickDone,
         TickExit, SettlementExit, redis, election, recov, mem, tickVars, driveVars
<1>2. TypeOK'
  BY <1>1 DEF Inv, TypeOK
<1>3. Pointers' /\ Phases'
  BY <1>1 DEF Inv, TypeOK, Pointers, Phases, Range
<1>4. Objects' /\ Records' /\ Kept'
  BY <1>1 DEF Inv, Objects, Records, Kept
<1>5. QED
  BY <1>2, <1>3, <1>4 DEF Inv

\* A new match has a fresh ID: nothing was known under it.
LEMMA Fresh ==
  ASSUME Inv, ConfirmMatch
  PROVE  \E m \in MatchIDs :
           /\ m \notin used /\ obj[m] = None /\ m \in Keys /\ m # 0
           /\ tick \in {"idle", "more"} /\ proc \in {"leader", "stopping"}
           /\ used' = used \cup {m} /\ tcur' = m /\ tick' = "save"
           /\ obj' = [obj EXCEPT ![m] = [of |-> m, id |-> m, state |-> "confirmed"]]
           /\ matches' = [matches EXCEPT ![m] = m]
           /\ UNCHANGED <<record, saved, expired, settled, crashes, session, proc, todo, loaded, lost,
                          notifyCh, drive, dcur>>
<1> DEFINE m == CHOOSE x \in MatchIDs \ used : TRUE
<1>1. m \in MatchIDs /\ m \notin used
  BY DEF ConfirmMatch, Inv, TypeOK
<1>2. m \in Keys /\ m # 0
  BY <1>1, MatchIDsAssumption DEF Keys
<1>3. obj[m] = None
  BY <1>1, <1>2 DEF Inv, Objects
<1>4. tick \in {"idle", "more"} /\ proc \in {"leader", "stopping"}
  BY DEF ConfirmMatch, Inv, TypeOK, Phases
<1>5. QED
  BY <1>1, <1>2, <1>3, <1>4 DEF ConfirmMatch, election, recov, driveVars

LEMMA ConfirmKeeps == Inv /\ ConfirmMatch => Inv'
<1> SUFFICES ASSUME Inv, ConfirmMatch PROVE Inv'
  OBVIOUS
<1>1. PICK m \in MatchIDs :
           /\ m \notin used /\ obj[m] = None /\ m \in Keys /\ m # 0
           /\ tick \in {"idle", "more"} /\ proc \in {"leader", "stopping"}
           /\ used' = used \cup {m} /\ tcur' = m /\ tick' = "save"
           /\ obj' = [obj EXCEPT ![m] = [of |-> m, id |-> m, state |-> "confirmed"]]
           /\ matches' = [matches EXCEPT ![m] = m]
           /\ UNCHANGED <<record, saved, expired, settled, crashes, session, proc, todo, loaded, lost,
                          notifyCh, drive, dcur>>
  BY Fresh
<1>2. /\ obj'[m] \in Object /\ obj'[m].of = m /\ obj'[m].id = m
      /\ obj'[m] # None
      /\ \A k \in Keys : k # m => obj'[k] = obj[k]
  BY <1>1, NilAssumption DEF Inv, TypeOK, Object, MatchState
<1>3. TypeOK'
  BY <1>1, <1>2 DEF Inv, TypeOK
<1>4. Pointers'
  <2>1. m # None /\ Range(notifyCh) \subseteq Keys
    BY <1>1, MatchIDsAssumption, Channel DEF Keys, Inv, TypeOK
  <2>2. /\ \A k \in loaded' : obj'[k] # None /\ obj'[k].id = 0
        /\ \A k \in Range(notifyCh') : obj'[k] # None
        /\ tcur' # None /\ obj'[tcur'] # None
    BY <1>1, <1>2, <2>1 DEF Inv, TypeOK, Pointers
  <2>3. IF drive' \in {"drive", "delete"} THEN dcur' # None /\ obj'[dcur'] # None ELSE dcur' = None
    BY <1>1, <1>2 DEF Inv, TypeOK, Pointers
  <2>4. ASSUME NEW k \in Keys, matches'[k] # None
        PROVE  obj'[matches'[k]] # None /\ obj'[matches'[k]].id = k
    BY <1>1, <1>2, <2>4 DEF Inv, TypeOK, Pointers
  <2>5. QED
    BY <1>1, <2>2, <2>3, <2>4 DEF Pointers
<1>5. Phases' /\ Objects'
  BY <1>1, <1>2 DEF Inv, Phases, Objects
<1>6. Records' /\ Kept'
  BY <1>1, <1>2 DEF Inv, TypeOK, Pointers, Records, Kept
<1>7. QED
  BY <1>3, <1>4, <1>5, <1>6 DEF Inv

\* A record is written under the match's own key, or under 0 for a match that
\* was recovered and has been saved before.
LEMMA Saving ==
  ASSUME Inv, NEW k \in Keys, obj[k] # None,
         NEW st \in {"confirmed", "room_prep", "notifying"}, SaveMatchRecord(k, st)
  PROVE  /\ record' \in [Keys -> Record \cup {None}]
         /\ saved \subseteq saved' /\ saved' \subseteq used /\ expired' \subseteq expired
         /\ \A x \in Keys : record'[x] # None =>
              /\ record'[x].of \in saved'
              /\ x # 0 => record'[x].of = x
              /\ record'[x].state \in {"confirmed", "room_prep", "notifying"}
         /\ \A m \in saved' \ (settled \cup expired') : record'[m] # None
<1>1. /\ obj[k] \in Object /\ obj[k].of \in used /\ obj[k].id \in {0, k} /\ obj[k].id \in Keys
      /\ k # 0 => obj[k].of = k
      /\ obj[k].id = 0 => obj[k].of \in saved
  BY DEF Inv, TypeOK, Objects, Object
<1>2. CASE UNCHANGED <<record, saved, expired>>
  BY <1>2 DEF Inv, TypeOK, Records, Kept
<1>3. CASE /\ record' = [record EXCEPT ![obj[k].id] = [of |-> obj[k].of, state |-> st]]
           /\ saved' = saved \cup {obj[k].of} /\ expired' = expired \ {obj[k].id}
  <2> DEFINE r == [of |-> obj[k].of, state |-> st]
  <2>1. r \in Record /\ r # None /\ r.of = obj[k].of /\ r.state = st
    BY <1>1, NilAssumption DEF Record, Object, MatchState
  <2>2. record' = [record EXCEPT ![obj[k].id] = r]
    BY <1>3
  <2> HIDE DEF r
  <2>3. /\ record' \in [Keys -> Record \cup {None}] /\ record'[obj[k].id] = r
        /\ \A x \in Keys : x # obj[k].id => record'[x] = record[x]
    BY <1>1, <2>1, <2>2 DEF Inv, TypeOK
  <2>4. saved \subseteq saved' /\ saved' \subseteq used
    BY <1>1, <1>3 DEF Inv, TypeOK
  <2>5. ASSUME NEW x \in Keys, record'[x] # None
        PROVE  /\ record'[x].of \in saved' /\ (x # 0 => record'[x].of = x)
               /\ record'[x].state \in {"confirmed", "room_prep", "notifying"}
    <3>1. CASE x = obj[k].id
      BY <1>1, <1>3, <2>1, <2>3, <3>1
    <3>2. CASE x # obj[k].id
      BY <1>3, <2>3, <2>5, <3>2 DEF Inv, Records
    <3>3. QED
      BY <3>1, <3>2
  <2>6. ASSUME NEW m \in saved' \ (settled \cup expired') PROVE record'[m] # None
    <3>1. m \in MatchIDs /\ m \in Keys /\ m # 0
      BY <2>4, MatchIDsAssumption DEF Inv, TypeOK, Keys
    <3>2. CASE m = obj[k].id
      BY <2>1, <2>3, <3>2
    <3>3. CASE m # obj[k].id
      <4>1. m \in saved /\ m \notin expired
        BY <1>1, <1>3, <2>6, <3>1, <3>3
      <4>2. QED
        BY <2>3, <3>1, <3>3, <4>1 DEF Inv, Kept
    <3>4. QED
      BY <3>2, <3>3
  <2>7. QED
    BY <1>3, <2>3, <2>4, <2>5, <2>6
<1>4. QED
  BY <1>2, <1>3 DEF SaveMatchRecord

LEMMA SaveKeeps == Inv /\ SaveConfirmed => Inv'
<1> SUFFICES ASSUME Inv, SaveConfirmed PROVE Inv'
  OBVIOUS
<1>1. /\ tick = "save" /\ tick' = "push" /\ SaveMatchRecord(tcur, "confirmed")
      /\ UNCHANGED <<used, settled, crashes, session, proc, todo, loaded, lost, obj, matches,
                     notifyCh, tcur, drive, dcur>>
  BY DEF SaveConfirmed, election, recov, mem, driveVars
<1>2. tcur \in Keys /\ obj[tcur] # None
  BY <1>1 DEF Inv, TypeOK, Pointers, Keys
<1>3. /\ record' \in [Keys -> Record \cup {None}]
      /\ saved \subseteq saved' /\ saved' \subseteq used /\ expired' \subseteq expired
      /\ \A x \in Keys : record'[x] # None =>
           /\ record'[x].of \in saved'
           /\ x # 0 => record'[x].of = x
           /\ record'[x].state \in {"confirmed", "room_prep", "notifying"}
      /\ \A m \in saved' \ (settled \cup expired') : record'[m] # None
  BY <1>1, <1>2, Saving
<1>4. TypeOK'
  BY <1>1, <1>3 DEF Inv, TypeOK
<1>5. Pointers' /\ Phases'
  BY <1>1, <1>2 DEF Inv, Pointers, Phases, Range
<1>6. Objects' /\ Records' /\ Kept'
  BY <1>1, <1>3 DEF Inv, Objects, Records, Kept
<1>7. QED
  BY <1>4, <1>5, <1>6 DEF Inv

LEMMA PushKeeps == Inv /\ PushMatch => Inv'
<1> SUFFICES ASSUME Inv, PushMatch PROVE Inv'
  OBVIOUS
<1>1. /\ tick = "push" /\ tick' \in {"idle", "more"} /\ tcur' = None
      /\ notifyCh' = Append(notifyCh, tcur)
      /\ UNCHANGED <<record, used, saved, expired, settled, crashes, session, proc, todo, loaded, lost,
                     obj, matches, drive, dcur>>
  BY DEF PushMatch, redis, election, recov, mem, driveVars
<1>2. tcur \in Keys /\ obj[tcur] # None
  BY <1>1 DEF Inv, TypeOK, Pointers, Keys
<1>3. notifyCh' \in Seq(Keys) /\ Range(notifyCh') = Range(notifyCh) \cup {tcur}
  BY <1>1, <1>2, Channel DEF Inv, TypeOK
<1>4. TypeOK'
  BY <1>1, <1>3 DEF Inv, TypeOK
<1>5. Pointers' /\ Phases'
  BY <1>1, <1>2, <1>3 DEF Inv, Pointers, Phases
<1>6. Objects' /\ Records' /\ Kept'
  BY <1>1 DEF Inv, Objects, Records, Kept
<1>7. QED
  BY <1>4, <1>5, <1>6 DEF Inv

LEMMA ReceiveKeeps == Inv /\ ReceiveMatch => Inv'
<1> SUFFICES ASSUME Inv, ReceiveMatch PROVE Inv'
  OBVIOUS
<1>1. /\ proc \in {"leader", "stopping"} /\ notifyCh # <<>>
      /\ drive = "idle" /\ drive' = "drive"
      /\ dcur' = Head(notifyCh) /\ notifyCh' = Tail(notifyCh)
      /\ UNCHANGED <<record, used, saved, expired, settled, crashes, session, proc, todo, loaded, lost,
                     obj, matches, tick, tcur>>
  BY DEF ReceiveMatch, redis, election, recov, mem, tickVars
<1>2. /\ dcur' \in Keys /\ notifyCh' \in Seq(Keys)
      /\ Range(notifyCh) = Range(notifyCh') \cup {dcur'}
  BY <1>1, Channel DEF Inv, TypeOK
<1>3. TypeOK'
  BY <1>1, <1>2 DEF Inv, TypeOK
<1>4. dcur' # None
  BY <1>2, MatchIDsAssumption DEF Keys
<1>5. Pointers' /\ Phases'
  BY <1>1, <1>2, <1>4 DEF Inv, Pointers, Phases
<1>6. Objects' /\ Records' /\ Kept'
  BY <1>1 DEF Inv, Objects, Records, Kept
<1>7. QED
  BY <1>3, <1>5, <1>6 DEF Inv

\* The effect of driveForward's assignments on the parts that only look at
\* which objects there are.
LEMMA AdvanceKeeps ==
  ASSUME Inv, NEW st \in MatchState, drive = "drive", obj' = Advance(dcur, st),
         UNCHANGED <<used, proc, todo, loaded, lost, matches, notifyCh, tick, tcur, dcur>>,
         saved \subseteq saved', drive' \in {"drive", "delete"}
  PROVE  /\ obj' \in [Keys -> Object \cup {None}]
         /\ obj'[dcur] # None /\ obj'[dcur].of = obj[dcur].of /\ obj'[dcur].state = st
         /\ Pointers' /\ Phases' /\ Objects'
<1>1. dcur \in Keys /\ obj[dcur] # None
  BY DEF Inv, TypeOK, Pointers
<1>2. /\ obj' \in [Keys -> Object \cup {None}]
      /\ obj'[dcur].state = st
      /\ \A x \in Keys : /\ obj'[x] = None <=> obj[x] = None
                         /\ obj[x] # None => obj'[x].of = obj[x].of /\ obj'[x].id = obj[x].id
  BY <1>1, Advancing
<1>3. Range(notifyCh) \subseteq Keys
  BY Channel DEF Inv, TypeOK
<1>4. Pointers'
  <2>1. /\ \A k \in loaded' : obj'[k] # None /\ obj'[k].id = 0
        /\ \A k \in Range(notifyCh)' : obj'[k] # None
    BY <1>2, <1>3 DEF Inv, TypeOK, Pointers, Range
  <2>2. IF tick' \in {"save", "push"} THEN tcur' # None /\ obj'[tcur'] # None ELSE tcur' = None
    BY <1>2 DEF Inv, TypeOK, Pointers, Keys
  <2>3. IF drive' \in {"drive", "delete"} THEN dcur' # None /\ obj'[dcur'] # None ELSE dcur' = None
    BY <1>1, <1>2 DEF Inv, TypeOK, Pointers
  <2>4. ASSUME NEW k \in Keys, matches'[k] # None
        PROVE  obj'[matches'[k]] # None /\ obj'[matches'[k]].id = k
    BY <1>2, <2>4 DEF Inv, TypeOK, Pointers
  <2>5. QED
    BY <2>1, <2>2, <2>3, <2>4 DEF Pointers
<1>5. Phases'
  BY <1>2 DEF Inv, Phases
<1>6. Objects'
  BY <1>2 DEF Inv, Objects
<1>7. QED
  BY <1>1, <1>2, <1>4, <1>5, <1>6

LEMMA DriveKeeps == Inv /\ (DriveConfirmed \/ DriveRoomPrep) => Inv'
<1> SUFFICES ASSUME Inv, NEW from \in MatchState, NEW to \in {"room_prep", "notifying"},
                    DriveStep(from, to)
             PROVE  Inv'
  BY DEF DriveConfirmed, DriveRoomPrep, MatchState
<1>1. /\ drive = "drive" /\ obj' = Advance(dcur, to) /\ SaveMatchRecord(dcur, to)
      /\ UNCHANGED <<used, settled, crashes, session, proc, todo, loaded, lost, matches,
                     notifyCh, tick, tcur, drive, dcur>>
  BY DEF DriveStep, election, recov, tickVars, driveVars
<1>2. dcur \in Keys /\ obj[dcur] # None /\ to \in MatchState
  BY <1>1 DEF Inv, TypeOK, Pointers, MatchState
<1>3. /\ record' \in [Keys -> Record \cup {None}]
      /\ saved \subseteq saved' /\ saved' \subseteq used /\ expired' \subseteq expired
      /\ \A x \in Keys : record'[x] # None =>
           /\ record'[x].of \in saved'
           /\ x # 0 => record'[x].of = x
           /\ record'[x].state \in {"confirmed", "room_prep", "notifying"}
      /\ \A m \in saved' \ (settled \cup expired') : record'[m] # None
  BY <1>1, <1>2, Saving
<1>4. obj' \in [Keys -> Object \cup {None}] /\ Pointers' /\ Phases' /\ Objects'
  BY <1>1, <1>2, <1>3, AdvanceKeeps
<1>5. TypeOK'
  BY <1>1, <1>3, <1>4 DEF Inv, TypeOK
<1>6. Records' /\ Kept'
  BY <1>1, <1>3 DEF Inv, Records, Kept
<1>7. QED
  BY <1>4, <1>5, <1>6 DEF Inv

LEMMA NotifyKeeps == Inv /\ DriveNotifying => Inv'
<1> SUFFICES ASSUME Inv, DriveNotifying PROVE Inv'
  OBVIOUS
<1>1. /\ drive = "drive" /\ drive' = "delete" /\ obj' = Advance(dcur, "complete")
      /\ settled' = settled \cup {obj[dcur].of}
      /\ UNCHANGED <<record, used, saved, expired, crashes, session, proc, todo, loaded, lost, matches,
                     notifyCh, tick, tcur, dcur>>
  BY DEF DriveNotifying, redis, election, recov, tickVars
<1>2. dcur \in Keys /\ obj[dcur] # None /\ obj[dcur].of \in used /\ "complete" \in MatchState
  BY <1>1 DEF Inv, TypeOK, Pointers, Objects, MatchState
<1>3. /\ obj' \in [Keys -> Object \cup {None}] /\ obj'[dcur].of = obj[dcur].of
      /\ Pointers' /\ Phases' /\ Objects'
  BY <1>1, <1>2, AdvanceKeeps
<1>4. TypeOK'
  BY <1>1, <1>2, <1>3 DEF Inv, TypeOK
<1>5. Records' /\ Kept'
  BY <1>1, <1>3 DEF Inv, Records, Kept
<1>6. QED
  BY <1>3, <1>4, <1>5 DEF Inv

LEMMA DeleteKeeps == Inv /\ DriveDelete => Inv'
<1> SUFFICES ASSUME Inv, DriveDelete PROVE Inv'
  OBVIOUS
<1>1. /\ drive = "delete" /\ drive' = "drive"
      /\ record' = [record EXCEPT ![obj[dcur].id] = None]
      /\ UNCHANGED <<used, saved, expired, settled, crashes, session, proc, todo, loaded, lost, obj,
                     matches, notifyCh, tick, tcur, dcur>>
  BY DEF DriveDelete, DeleteMatchRecord, election, recov, mem, tickVars
<1>2. /\ dcur \in Keys /\ obj[dcur] # None /\ obj[dcur].id \in {0, dcur}
      /\ dcur # 0 => obj[dcur].of = dcur
      /\ obj[dcur].of \in settled /\ obj[dcur].id \in Keys
  BY <1>1 DEF Inv, TypeOK, Pointers, Objects, Kept, Keys
<1>3. TypeOK'
  BY <1>1, <1>2 DEF Inv, TypeOK
<1>4. Pointers' /\ Phases' /\ Objects'
  BY <1>1 DEF Inv, Pointers, Phases, Objects, Range
<1>5. Records'
  BY <1>1, <1>2 DEF Inv, TypeOK, Records
<1>6. ASSUME NEW m \in saved \ (settled \cup expired) PROVE record'[m] # None
  <2>1. m \in Keys /\ m # 0
    BY MatchIDsAssumption DEF Inv, TypeOK, Keys
  <2>2. m # obj[dcur].id
    BY <1>2, <2>1
  <2>3. QED
    BY <1>1, <2>1, <2>2 DEF Inv, TypeOK, Kept
<1>7. Kept'
  BY <1>1, <1>6 DEF Kept
<1>8. QED
  BY <1>3, <1>4, <1>5, <1>7 DEF Inv

LEMMA ReturnKeeps == Inv /\ DriveReturn => Inv'
<1> SUFFICES ASSUME Inv, DriveReturn PROVE Inv'
  OBVIOUS
<1>1. /\ drive = "drive" /\ drive' = "idle" /\ dcur' = None
      /\ UNCHANGED <<record, used, saved, expired, settled, crashes, session, proc, todo, loaded, lost,
                     obj, matches, notifyCh, tick, tcur>>
  BY DEF DriveReturn, redis, election, recov, mem, tickVars
<1>2. TypeOK'
  BY <1>1 DEF Inv, TypeOK
<1>3. Pointers' /\ Phases' /\ Objects' /\ Records' /\ Kept'
  BY <1>1 DEF Inv, Pointers, Phases, Objects, Records, Kept, Range
<1>4. QED
  BY <1>2, <1>3 DEF Inv

\* A record goes, and with it the claim to have one.
LEMMA ExpireKeeps == \A k \in Keys : Inv /\ ExpireRecord(k) => Inv'
<1> SUFFICES ASSUME NEW k \in Keys, Inv, ExpireRecord(k) PROVE Inv'
  OBVIOUS
<1>1. /\ record[k] # None /\ record' = [record EXCEPT ![k] = None]
      /\ expired' = expired \cup ({k} \ {0})
      /\ UNCHANGED <<used, saved, settled, crashes, session, proc, todo, loaded, lost, obj,
                     matches, notifyCh, tick, tcur, drive, dcur>>
  BY DEF ExpireRecord, DeleteMatchRecord, election, recov, mem, tickVars, driveVars
<1>2. expired' \subseteq saved'
  BY <1>1 DEF Inv, TypeOK, Records
<1>3. TypeOK'
  BY <1>1, <1>2 DEF Inv, TypeOK
<1>4. Pointers' /\ Phases' /\ Objects'
  BY <1>1 DEF Inv, Pointers, Phases, Objects, Range
<1>5. Records'
  BY <1>1 DEF Inv, TypeOK, Records
<1>6. Kept'
  BY <1>1, MatchIDsAssumption DEF Inv, TypeOK, Kept
<1>7. QED
  BY <1>3, <1>4, <1>5, <1>6 DEF Inv

LEMMA CrashKeeps == Inv /\ Crash => Inv'
<1> SUFFICES ASSUME Inv, Crash PROVE Inv'
  OBVIOUS
<1>1. /\ crashes < MaxCrashes /\ crashes' = crashes + 1 /\ proc' = "down"
      /\ session' = TRUE
      /\ todo' = {} /\ loaded' = {} /\ notifyCh' = <<>>
      /\ obj' = [k \in Keys |-> None] /\ matches' = [k \in Keys |-> None]
      /\ tick' = "off" /\ tcur' = None /\ drive' = "off" /\ dcur' = None
      /\ UNCHANGED <<record, used, saved, expired, settled, lost>>
  BY DEF Crash, redis
<1>2. TypeOK'
  BY <1>1, BoundsAssumption DEF Inv, TypeOK
<1>3. Pointers' /\ Phases' /\ Objects' /\ Records' /\ Kept'
  BY <1>1 DEF Inv, Pointers, Phases, Objects, Records, Kept, Range
<1>4. QED
  BY <1>2, <1>3 DEF Inv

LEMMA Preserved == Inv /\ [Next]_vars => Inv'
<1> SUFFICES ASSUME Inv, [Next]_vars PROVE Inv'
  OBVIOUS
<1>1. CASE Start
  BY <1>1, LoadKeeps, LoadFailsKeeps, RecoverMatchKeeps, DiscardKeeps, ControlKeeps DEF Start
<1>2. CASE Tick
  BY <1>2, ConfirmKeeps, SaveKeeps, PushKeeps, ControlKeeps DEF Tick
<1>3. CASE Settle
  BY <1>3, ReceiveKeeps, DriveKeeps, NotifyKeeps, DeleteKeeps, ReturnKeeps, ControlKeeps DEF Settle
<1>4. CASE Election
  BY <1>4, ControlKeeps
<1>5. CASE UNCHANGED vars
  BY <1>5 DEF vars, Inv, TypeOK, Pointers, Phases, Objects, Records, Kept, Range
<1>6. QED
  BY <1>1, <1>2, <1>3, <1>4, <1>5, CrashKeeps, ExpireKeeps DEF Next

LEMMA Invariance == Spec => []Inv
  BY Begins, Preserved, PTL DEF Spec

\* The variables of a match service keep their types, whatever crashes, fails
\* or is recovered.
THEOREM Typed == Spec => []TypeOK
<1>1. Inv => TypeOK
  BY DEF Inv
<1>2. QED
  BY <1>1, Invariance, PTL

\* Nothing but its TTL makes Redis forget an unsettled match: SaveMatchRecord's
\* first write is under the match's own key, and driveForward alone deletes
\* that record, after the players were notified; a recovered match, of this ID
\* or another, only ever deletes the record under 0.
THEOREM Remembered == Spec => []NothingForgotten
<1>1. Inv => NothingForgotten
  <2>1. SUFFICES ASSUME Inv, NEW m \in saved \ (settled \cup expired)
                 PROVE  \E k \in Keys : record[k] # None /\ record[k].of = m
    BY DEF NothingForgotten
  <2>2. m \in Keys /\ m # 0
    BY <2>1, MatchIDsAssumption DEF Inv, TypeOK, Keys
  <2>3. record[m] # None /\ record[m].of = m
    BY <2>1, <2>2 DEF Inv, Kept, Records
  <2>4. QED
    BY <2>2, <2>3
<1>2. QED
  BY <1>1, Invariance, PTL

\* What LegalMatchTransitions says of one step.
LegalStep ==
    \A k \in Keys :
        obj[k] # None /\ obj'[k] # None /\ obj'[k].state # obj[k].state
            => \/ CanMatchTransitionTo(obj[k].state, obj'[k].state)
               \/ proc = "down"

\* Two assignments, one object each: m.State moves from the state driveForward
\* switched on, and UpdateMatchState checks the table for the other.
LEMMA AdvanceLegal ==
  ASSUME Inv, NEW from \in MatchState, NEW to \in MatchState, CanMatchTransitionTo(from, to),
         drive = "drive", obj[dcur].state = from, obj' = Advance(dcur, to)
  PROVE  LegalStep
<1>1. dcur \in Keys /\ obj[dcur] # None
  BY DEF Inv, TypeOK, Pointers
<1>2. ASSUME NEW x \in Keys, obj[x] # None
      PROVE  /\ x = dcur => obj'[x].state = to
             /\ x # dcur => \/ obj'[x].state = obj[x].state
                            \/ obj'[x].state = to /\ CanMatchTransitionTo(obj[x].state, to)
  BY <1>1, <1>2, Advancing
<1>3. QED
  BY <1>2 DEF LegalStep

LEMMA StepLegal == Inv /\ [Next]_vars => LegalStep
<1> SUFFICES ASSUME Inv, [Next]_vars PROVE LegalStep
  OBVIOUS
<1>1. CASE DriveConfirmed
  <2>1. CanMatchTransitionTo("confirmed", "room_prep")
    BY DEF CanMatchTransitionTo, matchTransitions
  <2>2. QED
    BY <1>1, <2>1, AdvanceLegal DEF DriveConfirmed, DriveStep, MatchState
<1>2. CASE DriveRoomPrep
  <2>1. CanMatchTransitionTo("room_prep", "notifying")
    BY DEF CanMatchTransitionTo, matchTransitions
  <2>2. QED
    BY <1>2, <2>1, AdvanceLegal DEF DriveRoomPrep, DriveStep, MatchState
<1>3. CASE DriveNotifying
  <2>1. CanMatchTransitionTo("notifying", "complete")
    BY DEF CanMatchTransitionTo, matchTransitions
  <2>2. QED
    BY <1>3, <2>1, AdvanceLegal DEF DriveNotifying, MatchState
<1>4. CASE ConfirmMatch
  <2>1. PICK m \in MatchIDs :
           /\ obj[m] = None
           /\ obj' = [obj EXCEPT ![m] = [of |-> m, id |-> m, state |-> "confirmed"]]
    BY <1>4, Fresh
  <2>2. QED
    BY <2>1 DEF LegalStep, Inv, TypeOK
<1>5. CASE LoadActiveMatches
  BY <1>5 DEF LoadActiveMatches, Load, LegalStep
<1>6. CASE Crash
  BY <1>6 DEF Crash, LegalStep
<1>7. ASSUME obj' = obj PROVE LegalStep
  BY <1>7 DEF LegalStep
<1>8. CASE Start
  BY <1>5, <1>7, <1>8 DEF Start, LoadFails, RecoverDone, RecoverMatch, DiscardStale, mem
<1>9. CASE Tick
  BY <1>4, <1>7, <1>9 DEF Tick, SaveConfirmed, PushMatch, TickDone, TickExit, mem
<1>10. CASE Settle
  BY <1>1, <1>2, <1>3, <1>7, <1>10 DEF Settle, ReceiveMatch, SettlementExit, DriveDelete, DriveReturn, mem
<1>11. CASE Election \/ UNCHANGED vars \/ \E k \in Keys : ExpireRecord(k)
  BY <1>7, <1>11 DEF Election, Promote, LoseSession, Demote, Stopped, ExpireRecord, vars, mem
<1>12. QED
  BY <1>6, <1>8, <1>9, <1>10, <1>11 DEF Next

\* A Match object never leaves the table of transitions, although driveForward
\* assigns m.State without asking it and, for recovered matches, updates
\* another object on the way.
THEOREM LegalTransitions == Spec => LegalMatchTransitions
<1>1. Inv /\ [Next]_vars =>
        [\A k \in Keys :
           obj[k] # None /\ obj'[k] # None /\ obj'[k].state # obj[k].state
               => \/ CanMatchTransitionTo(obj[k].state, obj'[k].state)
                  \/ proc = "down"]_vars
  BY StepLegal DEF LegalStep
<1>2. QED
  BY <1>1, Invariance, PTL DEF Spec, LegalMatchTransitions
-----------------------------------------------------------------------------
(* No match is dropped.                                                    *)

LEMMA DropBegins == Init => DropInv
<1> SUFFICES ASSUME Init PROVE DropInv
  OBVIOUS
<1>1. 0 \in Keys /\ None \notin Keys
  BY MatchIDsAssumption DEF Keys
<1>2. InHand = {None}
  BY DEF Init, InHand, Range
<1>3. Reached /\ Handled
  BY <1>1, <1>2 DEF Init, Reached, Handled, Range
<1>4. IsFiniteSet(used)
  BY FS_EmptySet DEF Init
<1>5. QED
  BY <1>3, <1>4 DEF DropInv

\* The ids handed out stay finitely many.
LEMMA FiniteUsed == Inv /\ IsFiniteSet(used) /\ [Next]_vars => IsFiniteSet(used')
<1> SUFFICES ASSUME Inv, IsFiniteSet(used), [Next]_vars PROVE IsFiniteSet(used')
  OBVIOUS
<1>1. CASE ConfirmMatch
  <2>1. PICK m \in MatchIDs : used' = used \cup {m}
    BY <1>1, Fresh
  <2>2. QED
    BY <2>1, FS_AddElement
<1>2. CASE Start
  BY <1>2 DEF Start, LoadActiveMatches, Load, LoadFails, RecoverDone, RecoverMatch, DiscardStale, redis
<1>3. CASE Tick
  BY <1>1, <1>3 DEF Tick, SaveConfirmed, PushMatch, TickDone, TickExit, redis
<1>4. CASE Settle
  BY <1>4 DEF Settle, ReceiveMatch, SettlementExit, DriveConfirmed, DriveRoomPrep, DriveStep,
              DriveNotifying, DriveDelete, DriveReturn, redis
<1>5. CASE Election \/ Crash \/ UNCHANGED vars \/ \E k \in Keys : ExpireRecord(k)
  BY <1>5 DEF Election, Promote, LoseSession, Demote, Stopped, Crash, ExpireRecord, vars, redis
<1>6. QED
  BY <1>2, <1>3, <1>4, <1>5 DEF Next

\* A step that hands objects on, or leaves them, and changes none.
LEMMA HandedOn ==
  ASSUME Inv, DropInv, UNCHANGED <<obj, matches, settled, loaded>>, todo = {}, todo' = {},
         proc' # "recover", InHand' \cup {None} = InHand \cup {None}
  PROVE  Reached' /\ Handled'
<1>1. None \notin Keys
  BY MatchIDsAssumption DEF Keys
<1>2. Reached'
  BY DEF DropInv, Reached
<1>3. \A x \in Keys : Held(x) => Held(x)'
  BY <1>1 DEF Held
<1>4. Handled'
  BY <1>3 DEF DropInv, Handled, Alone
<1>5. QED
  BY <1>2, <1>4

LEMMA DropLoad == Inv /\ DropInv /\ LoadActiveMatches => Reached' /\ Handled'
<1> SUFFICES ASSUME Inv, DropInv, NEW ks \in SUBSET Stored, Load(ks, Stored \ ks)
             PROVE  Reached' /\ Handled'
  BY DEF LoadActiveMatches
<1>1. /\ proc = "down" /\ proc' = "recover" /\ todo' = ks /\ loaded' = ks
      /\ obj' = [k \in Keys |-> IF k \in ks
                                THEN [of |-> record[k].of, id |-> 0, state |-> record[k].state]
                                ELSE None]
      /\ UNCHANGED <<matches, notifyCh, tcur, dcur>>
  BY DEF Load, tickVars, driveVars
<1>2. /\ notifyCh = <<>> /\ tcur = None /\ dcur = None
      /\ \A k \in Keys : matches[k] = None
      /\ 0 \in Keys /\ None \notin Keys
  BY <1>1, MatchIDsAssumption DEF Inv, Phases, Pointers, Keys
<1>3. InHand' = ks \cup {None} /\ Range(notifyCh') = {}
  BY <1>1, <1>2 DEF InHand, Range
<1>4. Reached'
  BY <1>1, <1>2, <1>3 DEF Reached
<1>5. \A k \in ks : ~IsTerminal(obj'[k].state)
  BY <1>1 DEF Inv, Records, IsTerminal, Stored
<1>6. \A k \in Keys : obj'[k] # None => k \in ks
  BY <1>1
<1>7. \A k \in ks : Held(k)'
  BY <1>3, <1>5 DEF Held
<1>8. Handled'
  BY <1>1, <1>2, <1>6, <1>7 DEF Handled
<1>9. QED
  BY <1>4, <1>8

\* Starting without the matches leaves none to be dropped.
LEMMA DropLoadFails == Inv /\ DropInv /\ LoadFails => Reached' /\ Handled'
<1> SUFFICES ASSUME Inv, DropInv, LoadFails PROVE Reached' /\ Handled'
  OBVIOUS
<1>1. /\ proc = "down" /\ proc' = "follower"
      /\ UNCHANGED <<settled, todo, loaded, obj, matches, notifyCh, tcur, dcur>>
  BY DEF LoadFails, mem, tickVars, driveVars
<1>2. todo = {} /\ InHand' = InHand
  BY <1>1 DEF Inv, Phases, InHand, Range
<1>3. QED
  BY <1>1, <1>2, HandedOn

LEMMA DropRecover == \A k \in Keys : Inv /\ DropInv /\ RecoverMatch(k) => Reached' /\ Handled'
<1> SUFFICES ASSUME NEW k \in Keys, Inv, DropInv, RecoverMatch(k) PROVE Reached' /\ Handled'
  OBVIOUS
<1>1. /\ proc = "recover" /\ k \in todo
      /\ matches' = [matches EXCEPT ![obj[k].id] = k]
      /\ notifyCh' = Append(notifyCh, k) /\ todo' = todo \ {k}
      /\ UNCHANGED <<settled, proc, loaded, obj, tcur, dcur>>
  BY DEF RecoverMatch, election, tickVars, driveVars
<1>2. k \in loaded /\ obj[k].id = 0 /\ 0 \in Keys
  BY <1>1 DEF Inv, TypeOK, Pointers, Keys
<1>3. Range(notifyCh') = Range(notifyCh) \cup {k}
  BY <1>1, Channel DEF Inv, TypeOK
<1>4. InHand' = InHand
  BY <1>1, <1>3 DEF InHand
<1>5. matches'[0] = k
  BY <1>1, <1>2 DEF Inv, TypeOK
<1>6. Reached'
  BY <1>1, <1>2, <1>3, <1>4, <1>5 DEF DropInv, Reached
<1>7. \A x : Held(x)' <=> Held(x)
  BY <1>1, <1>4 DEF Held
<1>8. Handled'
  BY <1>1, <1>7 DEF DropInv, Handled, Alone
<1>9. QED
  BY <1>6, <1>8

\* Dropping an old match may leave one alone: Recover still has it.
LEMMA DropDiscard == \A k \in Keys : Inv /\ DropInv /\ DiscardStale(k) => Reached' /\ Handled'
<1> SUFFICES ASSUME NEW k \in Keys, Inv, DropInv, DiscardStale(k) PROVE Reached' /\ Handled'
  OBVIOUS
<1>1. /\ proc = "recover" /\ k \in todo
      /\ todo' = todo \ {k} /\ loaded' = loaded \ {k}
      /\ UNCHANGED <<settled, proc, obj, matches, notifyCh, tcur, dcur>>
  BY DEF DiscardStale, election, mem, tickVars, driveVars
<1>2. k \notin Range(notifyCh) /\ k # None /\ tcur = None /\ dcur = None
  BY <1>1, MatchIDsAssumption DEF Inv, Phases, Pointers, DropInv, Reached, Keys
<1>3. InHand' = InHand \ {k}
  BY <1>1, <1>2 DEF InHand, Range
<1>4. Reached'
  BY <1>1, <1>3 DEF DropInv, Reached, Range
<1>5. \A x \in loaded' : Held(x)'
  BY <1>1, <1>3 DEF DropInv, Handled, Held
<1>6. \A x \in Keys : obj'[x] # None => obj'[x].id = 0
  BY <1>1 DEF Inv, Phases
<1>7. Handled'
  BY <1>1, <1>5, <1>6 DEF Handled
<1>8. QED
  BY <1>4, <1>7

LEMMA DropControl ==
  Inv /\ DropInv
      /\ (RecoverDone \/ Election \/ TickDone \/ TickExit \/ SettlementExit \/ SaveConfirmed
            \/ DriveDelete)
    => Reached' /\ Handled'
<1> SUFFICES ASSUME Inv, DropInv,
                    RecoverDone \/ Election \/ TickDone \/ TickExit \/ SettlementExit
                      \/ SaveConfirmed \/ DriveDelete
             PROVE  Reached' /\ Handled'
  OBVIOUS
<1>1. UNCHANGED <<settled, todo, loaded, obj, matches, notifyCh, tcur, dcur>>
  BY DEF RecoverDone, Election, Promote, LoseSession, Demote, Stopped, TickDone, TickExit,
         SettlementExit, SaveConfirmed, DriveDelete, recov, mem, tickVars, driveVars
<1>2. todo = {} /\ proc' # "recover"
  BY DEF RecoverDone, Election, Promote, LoseSession, Demote, Stopped, TickDone, TickExit,
         SettlementExit, SaveConfirmed, DriveDelete, election, Inv, Phases
<1>3. InHand' = InHand
  BY <1>1 DEF InHand, Range
<1>4. QED
  BY <1>1, <1>2, <1>3, HandedOn

LEMMA DropConfirm == Inv /\ DropInv /\ ConfirmMatch => Reached' /\ Handled'
<1> SUFFICES ASSUME Inv, DropInv, ConfirmMatch PROVE Reached' /\ Handled'
  OBVIOUS
<1>1. PICK m \in MatchIDs :
           /\ m \notin used /\ obj[m] = None /\ m \in Keys /\ m # 0
           /\ tick \in {"idle", "more"} /\ proc \in {"leader", "stopping"}
           /\ tcur' = m
           /\ obj' = [obj EXCEPT ![m] = [of |-> m, id |-> m, state |-> "confirmed"]]
           /\ matches' = [matches EXCEPT ![m] = m]
           /\ UNCHANGED <<settled, proc, todo, loaded, notifyCh, dcur>>
  BY Fresh
<1>2. /\ obj'[m].of = m /\ obj'[m].id = m /\ obj'[m].state = "confirmed"
      /\ \A x \in Keys : x # m => obj'[x] = obj[x]
      /\ matches'[0] = matches[0]
  BY <1>1 DEF Inv, TypeOK, Keys
<1>3. tcur = None /\ None \notin Keys /\ todo = {}
  BY <1>1, MatchIDsAssumption DEF Inv, Pointers, Phases, Keys
<1>4. InHand' \cup {None} = InHand \cup {None, m}
  BY <1>1, <1>3 DEF InHand, Range
<1>5. InHand \subseteq Keys \cup {None}
  BY Channel DEF InHand, Inv, TypeOK, Keys
<1>6. Reached'
  <2>1. ASSUME NEW k \in InHand', k # None, obj'[k].id = 0 PROVE k \in loaded'
    <3>1. k # m
      BY <1>1, <1>2, <2>1
    <3>2. k \in InHand /\ k \in Keys
      BY <1>4, <1>5, <2>1, <3>1
    <3>3. QED
      BY <1>1, <1>2, <2>1, <3>1, <3>2 DEF DropInv, Reached
  <2>2. (matches'[0] # None => matches'[0] \in loaded' \ todo') /\ Range(notifyCh') \cap todo' = {}
    BY <1>1, <1>2, <1>3 DEF DropInv, Reached
  <2>3. QED
    BY <2>1, <2>2 DEF Reached
<1>7. Held(m)'
  BY <1>1, <1>2, <1>3, <1>4 DEF Held, IsTerminal
<1>8. \A x \in Keys : Held(x) /\ x # m => Held(x)'
  BY <1>2, <1>3, <1>4 DEF Held
<1>9. Handled'
  BY <1>1, <1>2, <1>7, <1>8 DEF DropInv, Handled, Alone
<1>10. QED
  BY <1>6, <1>9

LEMMA DropPush == Inv /\ DropInv /\ PushMatch => Reached' /\ Handled'
<1> SUFFICES ASSUME Inv, DropInv, PushMatch PROVE Reached' /\ Handled'
  OBVIOUS
<1>1. /\ tick = "push" /\ tcur' = None
      /\ notifyCh' = Append(notifyCh, tcur)
      /\ UNCHANGED <<settled, proc, todo, loaded, obj, matches, dcur>>
  BY DEF PushMatch, election, recov, mem, driveVars
<1>2. tcur \in Keys /\ todo = {} /\ proc # "recover"
  BY <1>1 DEF Inv, TypeOK, Pointers, Phases, Keys
<1>3. Range(notifyCh') = Range(notifyCh) \cup {tcur}
  BY <1>1, <1>2, Channel DEF Inv, TypeOK
<1>4. InHand' \cup {None} = InHand \cup {None}
  BY <1>1, <1>3 DEF InHand
<1>5. QED
  BY <1>1, <1>2, <1>4, HandedOn

LEMMA DropReceive == Inv /\ DropInv /\ ReceiveMatch => Reached' /\ Handled'
<1> SUFFICES ASSUME Inv, DropInv, ReceiveMatch PROVE Reached' /\ Handled'
  OBVIOUS
<1>1. /\ drive = "idle" /\ proc \in {"leader", "stopping"} /\ notifyCh # <<>>
      /\ dcur' = Head(notifyCh) /\ notifyCh' = Tail(notifyCh)
      /\ UNCHANGED <<settled, proc, todo, loaded, obj, matches, tcur>>
  BY DEF ReceiveMatch, election, recov, mem, tickVars
<1>2. dcur = None /\ todo = {} /\ proc # "recover"
  BY <1>1 DEF Inv, Pointers, Phases
<1>3. Range(notifyCh) = Range(notifyCh') \cup {dcur'}
  BY <1>1, Channel DEF Inv, TypeOK
<1>4. InHand' \cup {None} = InHand \cup {None}
  BY <1>1, <1>2, <1>3 DEF InHand
<1>5. QED
  BY <1>1, <1>2, <1>4, HandedOn

\* Driving an object on leaves it held: neither state is terminal.
LEMMA DropDrive == Inv /\ DropInv /\ (DriveConfirmed \/ DriveRoomPrep) => Reached' /\ Handled'
<1> SUFFICES ASSUME Inv, DropInv, NEW from \in MatchState, NEW to \in {"room_prep", "notifying"},
                    DriveStep(from, to)
             PROVE  Reached' /\ Handled'
  BY DEF DriveConfirmed, DriveRoomPrep, MatchState
<1>1. /\ drive = "drive" /\ obj' = Advance(dcur, to)
      /\ UNCHANGED <<settled, proc, todo, loaded, matches, notifyCh, tcur, dcur>>
  BY DEF DriveStep, election, recov, tickVars, driveVars
<1>2. dcur \in Keys /\ obj[dcur] # None /\ to \in MatchState /\ proc # "recover"
  BY <1>1 DEF Inv, TypeOK, Pointers, Phases, MatchState
<1>3. \A x \in Keys :
        /\ obj'[x] = None <=> obj[x] = None
        /\ obj[x] # None => /\ obj'[x].of = obj[x].of /\ obj'[x].id = obj[x].id
                            /\ obj'[x].state \in {obj[x].state, to}
  BY <1>1, <1>2, Advancing
<1>4. InHand' = InHand
  BY <1>1 DEF InHand, Range
<1>5. \A k \in InHand : k # None => k \in Keys /\ obj[k] # None
  BY Channel DEF InHand, Inv, TypeOK, Pointers, Keys
<1>6. Reached'
  BY <1>1, <1>3, <1>4, <1>5 DEF DropInv, Reached, Range
<1>7. ~IsTerminal(to)
  BY DEF IsTerminal
<1>8. \A x \in Keys : obj[x] # None /\ Held(x) => Held(x)'
  BY <1>3, <1>4, <1>7 DEF Held
<1>9. Handled'
  BY <1>1, <1>2, <1>3, <1>8 DEF DropInv, Handled, Alone
<1>10. QED
  BY <1>6, <1>9

\* COMPLETE is set on the object that was notified and on no other, as long as
\* no two share the ID 0.
LEMMA DropNotify == Inv /\ DropInv /\ DriveNotifying => Reached' /\ Handled'
<1> SUFFICES ASSUME Inv, DropInv, DriveNotifying PROVE Reached' /\ Handled'
  OBVIOUS
<1>1. /\ drive = "drive" /\ obj' = Advance(dcur, "complete")
      /\ settled' = settled \cup {obj[dcur].of}
      /\ UNCHANGED <<proc, todo, loaded, matches, notifyCh, tcur, dcur>>
  BY DEF DriveNotifying, election, recov, tickVars
<1>2. /\ dcur \in Keys /\ dcur # None /\ obj[dcur] # None /\ proc # "recover"
      /\ "complete" \in MatchState /\ obj[dcur].id \in {0, dcur}
  BY <1>1 DEF Inv, TypeOK, Pointers, Phases, Objects, MatchState
<1>3. \A x \in Keys :
        /\ obj'[x] = None <=> obj[x] = None
        /\ obj[x] # None =>
             /\ obj'[x].of = obj[x].of /\ obj'[x].id = obj[x].id
             /\ x # dcur => obj'[x].state = obj[x].state \/ x = matches[obj[dcur].id]
  BY <1>1, <1>2, Advancing
<1>4. InHand' = InHand
  BY <1>1 DEF InHand, Range
<1>5. \A k \in InHand : k # None => k \in Keys /\ obj[k] # None
  BY Channel DEF InHand, Inv, TypeOK, Pointers, Keys
<1>6. Reached'
  BY <1>1, <1>3, <1>4, <1>5 DEF DropInv, Reached, Range
<1>7. ASSUME Alone, NEW x \in Keys, x # dcur, x = matches[obj[dcur].id] PROVE FALSE
  <2>1. x # None /\ obj[dcur].id \in Keys
    BY <1>2, <1>7, MatchIDsAssumption DEF Keys
  <2>2. obj[x] # None /\ obj[x].id = obj[dcur].id /\ obj[x].id \in {0, x}
    BY <1>7, <2>1 DEF Inv, Pointers, Objects
  <2>3. CASE obj[dcur].id = 0
    <3>1. x \in loaded /\ dcur \in loaded
      BY <1>2, <1>7, <2>1, <2>3 DEF DropInv, Reached, InHand
    <3>2. QED
      BY <1>7, <3>1 DEF Alone
  <2>4. CASE obj[dcur].id # 0
    BY <1>2, <1>7, <2>2, <2>4
  <2>5. QED
    BY <2>3, <2>4
<1>8. ASSUME Alone, NEW x \in Keys, obj[x] # None, x # dcur, Held(x) PROVE Held(x)'
  BY <1>3, <1>4, <1>7, <1>8 DEF Held
<1>9. ASSUME Alone', NEW x \in Keys, obj'[x] # None, x \in loaded' \/ obj'[x].id # 0
      PROVE  obj'[x].of \in settled' \/ Held(x)'
  <2>1. /\ Alone /\ obj[x] # None /\ (x \in loaded \/ obj[x].id # 0)
        /\ obj'[x].of = obj[x].of
    BY <1>1, <1>3, <1>9 DEF Alone
  <2>2. CASE x = dcur
    BY <1>1, <2>1, <2>2
  <2>3. CASE x # dcur
    BY <1>1, <1>8, <2>1, <2>3 DEF DropInv, Handled
  <2>4. QED
    BY <2>2, <2>3
<1>10. Handled'
  BY <1>1, <1>2, <1>9 DEF Handled
<1>11. QED
  BY <1>6, <1>10

\* driveForward returns with an object that is finished.
LEMMA DropReturn == Inv /\ DropInv /\ DriveReturn => Reached' /\ Handled'
<1> SUFFICES ASSUME Inv, DropInv, DriveReturn PROVE Reached' /\ Handled'
  OBVIOUS
<1>1. /\ drive = "drive" /\ IsTerminal(obj[dcur].state) /\ dcur' = None
      /\ UNCHANGED <<settled, proc, todo, loaded, obj, matches, notifyCh, tcur>>
  BY DEF DriveReturn, election, recov, mem, tickVars
<1>2. None \notin Keys /\ proc # "recover"
  BY <1>1, MatchIDsAssumption DEF Keys, Inv, Phases
<1>3. InHand \ {dcur} \subseteq InHand' /\ InHand' \subseteq InHand \cup {None}
  BY <1>1 DEF InHand, Range
<1>4. Reached'
  BY <1>1, <1>3 DEF DropInv, Reached, Range
<1>5. \A x \in Keys : Held(x) => Held(x)'
  BY <1>1, <1>3 DEF Held
<1>6. Handled'
  BY <1>1, <1>2, <1>5 DEF DropInv, Handled, Alone
<1>7. QED
  BY <1>4, <1>6

LEMMA DropCrash == Inv /\ DropInv /\ Crash => Reached' /\ Handled'
<1> SUFFICES ASSUME Inv, DropInv, Crash PROVE Reached' /\ Handled'
  OBVIOUS
<1>1. /\ proc' = "down" /\ todo' = {} /\ loaded' = {} /\ notifyCh' = <<>>
      /\ obj' = [k \in Keys |-> None] /\ matches' = [k \in Keys |-> None]
      /\ tcur' = None /\ dcur' = None /\ 0 \in Keys
  BY DEF Crash, Keys
<1>2. InHand' = {None} /\ Range(notifyCh') = {}
  BY <1>1 DEF InHand, Range
<1>3. QED
  BY <1>1, <1>2 DEF Reached, Handled

LEMMA DropExpire == \A k \in Keys : Inv /\ DropInv /\ ExpireRecord(k) => Reached' /\ Handled'
<1> SUFFICES ASSUME NEW k \in Keys, Inv, DropInv, ExpireRecord(k) PROVE Reached' /\ Handled'
  OBVIOUS
<1>1. UNCHANGED <<settled, proc, todo, loaded, obj, matches, notifyCh, tcur, dcur>>
  BY DEF ExpireRecord, election, recov, mem, tickVars, driveVars
<1>2. QED
  BY <1>1 DEF DropInv, Reached, Handled, Alone, Held, InHand, Range

LEMMA DropPreserved == Inv /\ DropInv /\ [Next]_vars => DropInv'
<1> SUFFICES ASSUME Inv, DropInv, [Next]_vars PROVE Reached' /\ Handled'
  BY FiniteUsed DEF DropInv
<1>1. CASE Start
  BY <1>1, DropLoad, DropLoadFails, DropRecover, DropDiscard, DropControl DEF Start
<1>2. CASE Tick
  BY <1>2, DropConfirm, DropPush, DropControl DEF Tick
<1>3. CASE Settle
  BY <1>3, DropReceive, DropDrive, DropNotify, DropReturn, DropControl DEF Settle
<1>4. CASE Election
  BY <1>4, DropControl
<1>5. CASE UNCHANGED vars
  BY <1>5 DEF vars, DropInv, Reached, Handled, Alone, Held, InHand, Range
<1>6. QED
  BY <1>1, <1>2, <1>3, <1>4, <1>5, DropCrash, DropExpire DEF Next

\* Recover loads finitely many objects, and one at most is one.
LEMMA LoadedAlone == Inv /\ DropInv /\ Cardinality(loaded) <= 1 => Alone
<1> SUFFICES ASSUME Inv, DropInv, Cardinality(loaded) <= 1,
                    NEW x \in loaded, NEW y \in loaded, x # y
             PROVE  FALSE
  BY DEF Alone
<1>1. loaded \subseteq used \cup {0}
  BY DEF Inv, TypeOK, Pointers, Objects
<1>2. IsFiniteSet(loaded)
  BY <1>1, FS_AddElement, FS_Subset DEF DropInv
<1>3. IsFiniteSet({x}) /\ Cardinality({x}) = 1
  BY FS_Singleton
<1>4. IsFiniteSet({x} \cup {y}) /\ Cardinality({x} \cup {y}) = 2
  BY <1>3, FS_AddElement
<1>5. Cardinality({x} \cup {y}) <= Cardinality(loaded)
  BY <1>2, FS_Subset
<1>6. Cardinality(loaded) \in Nat
  BY <1>2, FS_CardinalityType
<1>7. QED
  BY <1>4, <1>5, <1>6

\* A running service never drops a match it confirmed or recovered, whatever
\* fails, as long as no two recovered matches share the ID 0.
THEOREM NoneLost == Spec => []NoneDroppedAlone
<1>1. Inv /\ DropInv => NoneDroppedAlone
  <2>1. SUFFICES ASSUME Inv, DropInv, Cardinality(loaded) <= 1, NEW k \in Keys,
                        obj[k] # None, k \in loaded \/ obj[k].id # 0
                 PROVE  obj[k].of \in settled \/ Pending(obj[k].of)
    BY DEF NoneDroppedAlone, NoneDropped, Known
  <2>2. obj[k].of \in settled \/ Held(k)
    BY <2>1, LoadedAlone DEF DropInv, Handled
  <2>3. k # None
    BY <2>1, MatchIDsAssumption DEF Keys
  <2>4. QED
    BY <2>2, <2>3 DEF Held, Pending
<1>2. QED
  BY <1>1, DropBegins, DropPreserved, Invariance, PTL DEF Spec
=============================================================================
