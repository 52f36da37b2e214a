--------------------------- MODULE MatchSettlement ---------------------------
(***************************************************************************)
(* The life of confirmed matches in match-go: the record each has in Redis,*)
(* the channel to the settlement goroutine, driveForward, leadership       *)
(* (SetLeader starts and stops the engine), a crash at any point and       *)
(* Recover on the next start.                                              *)
(*                                                                         *)
(* SaveMatchRecord writes no "id" field and parseMatchRecord reads one, so *)
(* every recovered Match has ID 0. Records and the matches map are keyed   *)
(* by ID; an object is named here by the record key it was loaded from, or *)
(* by its ID when the tick goroutine created it.                           *)
(*                                                                         *)
(* Time is not counted: a record's TTL may run out between any two steps.  *)
(***************************************************************************)
EXTENDS MatchModel, FiniteSets, Sequences, SequencesExt

CONSTANTS
    MatchIDs,    \* ids NextMatchID hands out
    NotifyCap,   \* capacity of notifyCh (256)
    MaxCrashes,  \* bound on crashes
    Stale,       \* whether a loaded record may be older than RedisKeyTTL
    Faults,      \* Redis calls that may fail: subset of {"save", "load"}
    None

ASSUME MatchIDsAssumption == 0 \notin MatchIDs /\ None \notin MatchIDs \cup {0}
ASSUME BoundsAssumption ==
    /\ NotifyCap \in Nat \ {0} /\ MaxCrashes \in Nat
    /\ Stale \in BOOLEAN
    /\ Faults \subseteq {"save", "load"}

Keys == MatchIDs \cup {0}

VARIABLES
    record,    \* Redis match:active:<key> -> which match, in which state; or None
    used,      \* ids handed out (the Redis counter)
    saved,     \* history: matches whose record was written at least once
    expired,   \* history: matches whose own record ran out of its TTL and was
               \* not written since
    settled,   \* history: matches whose players have been notified
    crashes,
    proc,      \* down, recover, follower, leader, stopping
    session,   \* whether the etcd session of runElection lives
    todo,      \* Recover: loaded objects not pushed yet
    loaded,    \* history: objects Recover loaded since the last start
    lost,      \* history: matches a start did not take up, or took up with others
    obj,       \* the Match objects: match, ID field, state
    matches,   \* MemoryStore.matches: ID -> object
    notifyCh,
    tick, tcur,    \* tick goroutine and the match it is confirming
    drive, dcur    \* settlement goroutine and the match it drives

redis == <<record, used, saved, expired>>
election == <<proc, session>>
recov == <<todo, loaded, lost>>
mem == <<obj, matches>>
tickVars == <<tick, tcur>>
driveVars == <<drive, dcur>>
vars == <<record, used, saved, expired, settled, crashes, proc, session, todo,
          loaded, lost, obj, matches, notifyCh, tick, tcur, drive, dcur>>

\* The matches Redis has records of under the keys ks.
Recorded(ks) == {record[k].of : k \in {x \in ks : record[x] # None}}

Record == [of : MatchIDs, state : MatchState]
Object == [of : MatchIDs, id : Keys, state : MatchState]

\* A nil pointer is no object, and a missing key no record.
ASSUME NilAssumption == None \notin Record \cup Object

-----------------------------------------------------------------------------
(* Stores                                                                  *)

\* Mutant: no ValidateMatchTransition.
UpdateMatchStateBlind(o, id, st) ==
    IF matches[id] # None THEN [o EXCEPT ![matches[id]].state = st] ELSE o

\* MemoryStore.UpdateMatchState(id, st): the object the map has under id, if
\* the table allows the transition.
UpdateMatchState(o, id, st) ==
    IF matches[id] # None /\ CanMatchTransitionTo(o[matches[id]].state, st)
    THEN [o EXCEPT ![matches[id]].state = st]
    ELSE o

\* UpdateMatchState(m.ID, st); m.State = st
Advance(k, st) == [UpdateMatchState(obj, obj[k].id, st) EXCEPT ![k].state = st]

\* SaveMatchRecord(m): HSET under m.ID, and EXPIRE starts its RedisKeyTTL
\* anew. Its error is logged or ignored.
SaveMatchRecord(k, st) ==
    \/ /\ record' = [record EXCEPT ![obj[k].id] = [of |-> obj[k].of, state |-> st]]
       /\ saved' = saved \cup {obj[k].of}
       /\ expired' = expired \ {obj[k].id}
    \/ "save" \in Faults /\ UNCHANGED <<record, saved, expired>>

DeleteMatchRecord(id) == record' = [record EXCEPT ![id] = None]

\* RedisKeyTTL has passed since the last save under k: Redis drops the record,
\* whether the process is alive or not.
ExpireRecord(k) ==
    /\ record[k] # None
    /\ DeleteMatchRecord(k)
    /\ expired' = expired \cup ({k} \ {0})
    /\ UNCHANGED <<used, saved, settled, crashes, election, recov, mem, notifyCh,
                   tickVars, driveVars>>

-----------------------------------------------------------------------------
(* Start: LoadActiveMatches and Recover                                    *)

\* The objects of the records ks (parseMatchRecord: everything but the ID).
\* Matches that were skipped, or that share the ID 0 with others, may get lost.
Load(ks, skipped) ==
    /\ proc = "down"
    /\ todo' = ks /\ loaded' = ks
    /\ lost' = lost \cup Recorded(skipped)
                    \cup IF Cardinality(ks) > 1 THEN Recorded(ks) ELSE {}
    /\ obj' = [k \in Keys |->
                  IF k \in ks
                  THEN [of |-> record[k].of, id |-> 0, state |-> record[k].state]
                  ELSE None]
    /\ proc' = "recover"
    /\ UNCHANGED <<redis, settled, crashes, session, matches, notifyCh, tickVars, driveVars>>

Stored == {k \in Keys : record[k] # None}

\* Mutant: only matches that were waiting for a room are loaded.
LoadActiveMatchesConfirmed == Load({k \in Stored : record[k].state = "confirmed"}, {})

\* SCAN finds every record; one whose HGETALL fails is skipped.
LoadActiveMatches ==
    \E ks \in SUBSET Stored :
        /\ "load" \in Faults \/ ks = Stored
        /\ Load(ks, Stored \ ks)

\* SCAN fails: the service starts without its matches.
LoadFails ==
    /\ proc = "down" /\ "load" \in Faults
    /\ proc' = "follower"
    /\ lost' = lost \cup Recorded(Keys)
    /\ UNCHANGED <<redis, settled, crashes, session, todo, loaded, mem, notifyCh, tickVars, driveVars>>

\* PutMatch, and notifyCh <- m, which blocks while the channel is full.
RecoverMatch(k) ==
    /\ proc = "recover" /\ k \in todo
    /\ Len(notifyCh) < NotifyCap
    /\ matches' = [matches EXCEPT ![obj[k].id] = k]
    /\ notifyCh' = Append(notifyCh, k)
    /\ todo' = todo \ {k}
    /\ UNCHANGED <<redis, settled, crashes, election, loaded, lost, obj, tickVars, driveVars>>

\* A match created more than RedisKeyTTL ago is dropped.
DiscardStale(k) ==
    /\ proc = "recover" /\ k \in todo /\ Stale
    /\ DeleteMatchRecord(obj[k].id)
    /\ todo' = todo \ {k}
    /\ loaded' = loaded \ {k}
    /\ lost' = lost \cup {obj[k].of}
    /\ UNCHANGED <<used, saved, expired, settled, crashes, election, mem, notifyCh,
                   tickVars, driveVars>>

RecoverDone ==
    /\ proc = "recover" /\ todo = {}
    /\ proc' = "follower"
    /\ UNCHANGED <<redis, settled, crashes, session, recov, mem, notifyCh, tickVars, driveVars>>

-----------------------------------------------------------------------------
(* Leadership: SetLeader, startEngine, stopEngine                          *)

\* Campaign returns: the node is elected. After a lost session runElection
\* campaigns again with the same one, which succeeds only as long as etcd still
\* knows its lease, and fails for ever from then on.
Promote ==
    /\ proc = "follower"
    /\ proc' = "leader" /\ tick' = "idle" /\ drive' = "idle"
    /\ UNCHANGED <<redis, settled, crashes, session, recov, mem, notifyCh, tcur, dcur>>

\* The keep-alives of the session stop; nobody makes a new one.
LoseSession ==
    /\ proc \in {"follower", "leader"} /\ session
    /\ session' = FALSE
    /\ UNCHANGED <<redis, settled, crashes, proc, recov, mem, notifyCh, tickVars, driveVars>>

\* session.Done: isLeader = false and close(stopCh). SIGTERM does the same; the
\* process ends then, and its session with it.
Demote ==
    /\ proc = "leader" /\ ~session
    /\ proc' = "stopping"
    /\ UNCHANGED <<redis, settled, crashes, session, recov, mem, notifyCh, tickVars, driveVars>>

\* wg.Wait returns once both loops have seen stopCh closed.
Stopped ==
    /\ proc = "stopping" /\ tick = "off" /\ drive = "off"
    /\ proc' = "follower"
    /\ UNCHANGED <<redis, settled, crashes, session, recov, mem, notifyCh, tickVars, driveVars>>

-----------------------------------------------------------------------------
(* Tick goroutine: the end of onMatchCandidate                             *)

\* Mutant: the id counter is not advanced in Redis.
ConfirmMatchUncounted ==
    /\ tick = "more" \/ (tick = "idle" /\ proc = "leader")
    /\ used # MatchIDs
    /\ LET m == CHOOSE x \in MatchIDs \ used : TRUE
       IN  /\ obj' = [obj EXCEPT ![m] = [of |-> m, id |-> m, state |-> "confirmed"]]
           /\ matches' = [matches EXCEPT ![m] = m]
           /\ tcur' = m
    /\ tick' = "save"
    /\ UNCHANGED <<redis, settled, crashes, election, recov, notifyCh, driveVars>>

\* CASConfirm succeeded: PutMatch. The loop over one tick's candidates
\* goes on although leadership was lost in the meantime.
ConfirmMatch ==
    /\ tick = "more" \/ (tick = "idle" /\ proc = "leader")
    /\ used # MatchIDs
    /\ LET m == CHOOSE x \in MatchIDs \ used : TRUE
       IN  /\ used' = used \cup {m}
           /\ obj' = [obj EXCEPT ![m] = [of |-> m, id |-> m, state |-> "confirmed"]]
           /\ matches' = [matches EXCEPT ![m] = m]
           /\ tcur' = m
    /\ tick' = "save"
    /\ UNCHANGED <<record, saved, expired, settled, crashes, election, recov, notifyCh,
                   driveVars>>

SaveConfirmed ==
    /\ tick = "save"
    /\ SaveMatchRecord(tcur, "confirmed")
    /\ tick' = "push"
    /\ UNCHANGED <<used, settled, crashes, election, recov, mem, notifyCh, tcur, driveVars>>

PushMatch ==
    /\ tick = "push"
    /\ Len(notifyCh) < NotifyCap
    /\ notifyCh' = Append(notifyCh, tcur)
    /\ tcur' = None
    /\ tick' \in {"idle", "more"}
    /\ UNCHANGED <<redis, settled, crashes, election, recov, mem, driveVars>>

\* The last candidate of the tick has been handled.
TickDone ==
    /\ tick = "more"
    /\ tick' = "idle"
    /\ UNCHANGED <<redis, settled, crashes, election, recov, mem, notifyCh, tcur, driveVars>>

\* Mutant: leaves only once the channel is empty.
TickExitDrained ==
    /\ proc = "stopping" /\ tick = "idle" /\ notifyCh = <<>>
    /\ tick' = "off"
    /\ UNCHANGED <<redis, settled, crashes, election, recov, mem, notifyCh, tcur, driveVars>>

TickExit ==
    /\ proc = "stopping" /\ tick = "idle"
    /\ tick' = "off"
    /\ UNCHANGED <<redis, settled, crashes, election, recov, mem, notifyCh, tcur, driveVars>>

-----------------------------------------------------------------------------
(* Settlement goroutine: settlementLoop and driveForward                   *)

\* Mutant: looks at stopCh again once it has a match, and leaves with it.
ReceiveMatchAndLeave ==
    /\ proc \in {"leader", "stopping"} /\ drive = "idle" /\ notifyCh # <<>>
    /\ notifyCh' = Tail(notifyCh)
    /\ IF proc = "leader" THEN dcur' = Head(notifyCh) /\ drive' = "drive"
                          ELSE drive' = "off" /\ UNCHANGED dcur
    /\ UNCHANGED <<redis, settled, crashes, election, recov, mem, tickVars>>

\* select takes either case when both are ready.
ReceiveMatch ==
    /\ proc \in {"leader", "stopping"} /\ drive = "idle" /\ notifyCh # <<>>
    /\ dcur' = Head(notifyCh)
    /\ notifyCh' = Tail(notifyCh)
    /\ drive' = "drive"
    /\ UNCHANGED <<redis, settled, crashes, election, recov, mem, tickVars>>

SettlementExit ==
    /\ proc = "stopping" /\ drive = "idle"
    /\ drive' = "off"
    /\ UNCHANGED <<redis, settled, crashes, election, recov, mem, notifyCh, tickVars, dcur>>

DriveStep(from, to) ==
    /\ drive = "drive" /\ obj[dcur].state = from
    /\ obj' = Advance(dcur, to)
    /\ SaveMatchRecord(dcur, to)
    /\ UNCHANGED <<used, settled, crashes, election, recov, matches, notifyCh, tickVars, driveVars>>

DriveConfirmed == DriveStep("confirmed", "room_prep")

\* Mutant: the record is deleted as soon as the room exists.
DriveRoomPrepDeletes ==
    /\ drive = "drive" /\ obj[dcur].state = "room_prep"
    /\ obj' = Advance(dcur, "notifying")
    /\ DeleteMatchRecord(obj[dcur].id)
    /\ UNCHANGED <<used, saved, expired, settled, crashes, election, recov, matches,
                   notifyCh, tickVars, driveVars>>

\* createRoom never fails.
DriveRoomPrep == DriveStep("room_prep", "notifying")

\* notifyPlayers, then COMPLETE in memory.
DriveNotifying ==
    /\ drive = "drive" /\ obj[dcur].state = "notifying"
    /\ settled' = settled \cup {obj[dcur].of}
    /\ obj' = Advance(dcur, "complete")
    /\ drive' = "delete"
    /\ UNCHANGED <<redis, crashes, election, recov, matches, notifyCh, tickVars, dcur>>

DriveDelete ==
    /\ drive = "delete"
    /\ DeleteMatchRecord(obj[dcur].id)
    /\ drive' = "drive"
    /\ UNCHANGED <<used, saved, expired, settled, crashes, election, recov, mem, notifyCh,
                   tickVars, dcur>>

\* driveForward returns on a terminal state.
DriveReturn ==
    /\ drive = "drive" /\ IsTerminal(obj[dcur].state)
    /\ drive' = "idle" /\ dcur' = None
    /\ UNCHANGED <<redis, settled, crashes, election, recov, mem, notifyCh, tickVars>>

-----------------------------------------------------------------------------
(* The process dies: only Redis is left. The next one has a new session.   *)
Crash ==
    /\ proc # "down" /\ crashes < MaxCrashes
    /\ crashes' = crashes + 1
    /\ proc' = "down" /\ session' = TRUE
    /\ todo' = {} /\ loaded' = {}
    /\ obj' = [k \in Keys |-> None]
    /\ matches' = [k \in Keys |-> None]
    /\ notifyCh' = <<>>
    /\ tick' = "off" /\ tcur' = None /\ drive' = "off" /\ dcur' = None
    /\ UNCHANGED <<redis, settled, lost>>

Init ==
    /\ record = [k \in Keys |-> None]
    /\ used = {} /\ saved = {} /\ expired = {} /\ settled = {}
    /\ crashes = 0
    /\ proc = "down" /\ session = TRUE
    /\ todo = {} /\ loaded = {} /\ lost = {}
    /\ obj = [k \in Keys |-> None]
    /\ matches = [k \in Keys |-> None]
    /\ notifyCh = <<>>
    /\ tick = "off" /\ tcur = None /\ drive = "off" /\ dcur = None

Start ==
    \/ LoadActiveMatches \/ LoadFails \/ RecoverDone
    \/ \E k \in Keys : RecoverMatch(k) \/ DiscardStale(k)

Tick == ConfirmMatch \/ SaveConfirmed \/ PushMatch \/ TickDone \/ TickExit

Settle ==
    \/ ReceiveMatch \/ SettlementExit
    \/ DriveConfirmed \/ DriveRoomPrep \/ DriveNotifying \/ DriveDelete \/ DriveReturn

Election == Promote \/ LoseSession \/ Demote \/ Stopped

Next == Start \/ Election \/ Tick \/ Settle \/ Crash \/ \E k \in Keys : ExpireRecord(k)

Spec == Init /\ [][Next]_vars

\* A started process goes on, goroutines run, and a node whose session lives is
\* elected in the end; with a lost one it need not be. Candidates need not
\* appear, and no crash, lost session or expiry need happen.
Fairness ==
    /\ WF_vars(Start)
    /\ WF_vars(session /\ Promote) /\ WF_vars(Demote) /\ WF_vars(Stopped)
    /\ WF_vars(SaveConfirmed \/ PushMatch \/ TickDone \/ TickExit)
    /\ WF_vars(Settle)

FairSpec == Spec /\ Fairness

-----------------------------------------------------------------------------
(* Properties                                                              *)

\* Every variable keeps its type; only matches that were confirmed are saved
\* or settled, and Recover works through what it loaded.
TypeOK ==
    /\ record \in [Keys -> Record \cup {None}]
    /\ used \subseteq MatchIDs /\ saved \subseteq used /\ settled \subseteq used
    /\ expired \subseteq saved
    /\ crashes \in 0..MaxCrashes /\ session \in BOOLEAN
    /\ proc \in {"down", "recover", "follower", "leader", "stopping"}
    /\ todo \subseteq loaded /\ loaded \subseteq Keys /\ lost \subseteq saved
    /\ obj \in [Keys -> Object \cup {None}]
    /\ matches \in [Keys -> Keys \cup {None}]
    /\ notifyCh \in Seq(Keys)
    /\ tick \in {"off", "idle", "more", "save", "push"}
    /\ drive \in {"off", "idle", "drive", "delete"}
    /\ tcur \in MatchIDs \cup {None} /\ dcur \in Keys \cup {None}

\* Only time makes Redis forget an unsettled match: a match that was saved has
\* a record until its players are notified, or until RedisKeyTTL has passed
\* since the last save under its own key. No crash and no step of this match
\* or of another takes the record away, also when recovered matches share the
\* key 0.
NothingForgotten ==
    \A m \in saved \ (settled \cup expired) :
        \E k \in Keys : record[k] # None /\ record[k].of = m

\* Objects some goroutine still has to finish.
InHand ==
    todo \cup Range(notifyCh) \cup {tcur, dcur}

Pending(m) == \E k \in InHand : k # None /\ obj[k].of = m /\ ~IsTerminal(obj[k].state)

\* The matches this process knows of: confirmed or recovered since the start.
Known == {obj[k].of : k \in {x \in Keys : obj[x] # None /\ (x \in loaded \/ obj[x].id # 0)}}

\* A running process never drops a match it knows: it is settled, or in the
\* hands of a goroutine or of the channel.
NoneDropped == \A m \in Known : m \in settled \/ Pending(m)

\* It holds while at most one of the recovered matches shares the ID 0.
NoneDroppedAlone == Cardinality(loaded) <= 1 => NoneDropped

\* Match objects move only along matchTransitions, although driveForward
\* assigns m.State after UpdateMatchState refused or changed another object.
LegalMatchTransitions ==
    [][\A k \in Keys :
          obj[k] # None /\ obj'[k] # None /\ obj'[k].state # obj[k].state
              => \/ CanMatchTransitionTo(obj[k].state, obj'[k].state)
                 \/ proc = "down"]_vars

\* The settlement goroutine saw stopCh first and the tick goroutine waits for
\* room in notifyCh, which nobody will make.
StuckStopping ==
    /\ proc = "stopping" /\ drive = "off"
    /\ tick = "push" /\ Len(notifyCh) = NotifyCap

\* The record ran out of its TTL while no process knew the match.
Forgotten(m) ==
    /\ m \in expired \ Recorded(Keys)
    /\ \A k \in Keys : obj[k] = None \/ obj[k].of # m

\* A node that stepped down: its session is lost, and it may never lead again.
Retired == proc = "follower" /\ ~session

\* A match whose record was saved is settled in the end, across crashes,
\* expiring records and a lost session, unless a start could not read it, found
\* it too old or found others with it, Redis forgot it while no process knew
\* it, or the node has stepped down or is stuck doing so.
EveryMatchSettles ==
    \A m \in MatchIDs :
        m \in saved ~> m \in settled \cup lost \/ Forgotten(m) \/ Retired \/ StuckStopping

\* A restarted process whose records fit into notifyCh, which nobody reads
\* yet, gets past Recover.
RecoverEnds ==
    proc = "recover" /\ Cardinality(loaded) <= NotifyCap ~> proc # "recover"

\* stopEngine returns: a leader that steps down gets to be a follower, unless
\* its loops ended in the wrong order over a full channel.
StopEnds == proc = "stopping" ~> proc # "stopping" \/ StuckStopping

\* Recover and stopEngine both wait for others, and both return.
WaitsEnd == RecoverEnds /\ StopEnds
=============================================================================
