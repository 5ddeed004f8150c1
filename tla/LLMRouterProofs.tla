-------------------------- MODULE LLMRouterProofs ---------------------------
(***************************************************************************)
(* Proofs, for every number of calls and every pair of model groups, of    *)
(* the safety of the LLM router.                                           *)
(***************************************************************************)
EXTENDS LLMRouter, TLAPS

USE RouterAssumption

----------------------------------------------------------------------------
(* The poll lock.                                                          *)

\* Whoever will post, or has posted, did so under a lock that still lives:
\* the lock outlives the goroutine, and a held lock is granted to nobody.
LockInv ==
    /\ posting \in Nat /\ posts \in Nat
    /\ posting + posts <= 1
    /\ ~lock => posting + posts = 0

\* Nobody has the lock when the router starts.
LEMMA LockInvInit == RouterInit => LockInv
BY DEF RouterInit, LockInv

\* Every step of a call, of triggerPoll and of the poller keeps LockInv.
LEMMA LockInvNext == LockInv /\ [RouterNext]_routerVars => LockInv'
<1> SUFFICES ASSUME LockInv, [RouterNext]_routerVars PROVE LockInv'
  OBVIOUS
<1> USE DEF LockInv
<1>1. ASSUME NEW c \in Call,
             \/ \E ok1, ok2 \in BOOLEAN : Select(c, ok1, ok2)
             \/ Interrupted(c) \/ StreamFails(c)
      PROVE  LockInv'
  BY <1>1 DEF Select, Interrupted, StreamFails, pollVars
<1>2. ASSUME NEW c \in Call, handleError(c) PROVE LockInv'
  BY <1>2 DEF handleError, blacklistForLiveError, BlacklistFails, pollVars
<1>3. ASSUME NEW c \in Call, NEW slow \in BOOLEAN, Served(c, slow) PROVE LockInv'
  BY <1>3 DEF Served, pollVars
<1>4. CASE AcquireLock
  BY <1>4 DEF AcquireLock
<1>5. CASE LockNotAcquired
  <2>1. lock => lock'
    BY <1>5, Zenon DEF LockNotAcquired
  <2> QED
    BY <1>5, <2>1 DEF LockNotAcquired
<1>6. CASE postPoll \/ PostFails
  BY <1>6 DEF postPoll, PostFails
<1>7. CASE LockExpires
  BY <1>7 DEF LockExpires
<1>8. ASSUME NEW k \in Primary, Poller(k) PROVE LockInv'
  BY <1>8 DEF Poller, Probe, RecordProbe
<1>9. ASSUME NEW k \in Primary, EndpointChanges(k) PROVE LockInv'
  BY <1>9 DEF EndpointChanges, pollVars
<1>10. ASSUME NEW k \in Key, RecordExpires(k) PROVE LockInv'
  BY <1>10 DEF RecordExpires, pollVars
<1>11. CASE UNCHANGED routerVars
  BY <1>11 DEF routerVars
<1> QED
  BY <1>1, <1>2, <1>3, <1>4, <1>5, <1>6, <1>7, <1>8, <1>9, <1>10, <1>11
     DEF RouterNext

\* However many calls of however many pods ask, the poller is asked at most
\* once while the lock of Router.triggerPoll lives.
THEOREM PollsOncePerWindow == RouterSpec => []OnePollPerWindow
<1>1. LockInv => OnePollPerWindow
  BY DEF LockInv, OnePollPerWindow
<1> QED
  BY LockInvInit, LockInvNext, <1>1, PTL DEF RouterSpec

----------------------------------------------------------------------------
(* The blacklist.                                                          *)

\* An endpoint that a call blacklisted and that has not answered a probe since
\* is not a candidate, whatever was read before that write, unless an older
\* probe was written over it.
BlacklistInv ==
    /\ health \in [Key -> [measured : BOOLEAN, blacklisted : BOOLEAN]]
    /\ config \in [Call -> Key]
    /\ found \in [Call -> BOOLEAN]
    /\ poll \in [Primary -> {"idle", "due", "good", "failed"}]
    /\ \A k \in Key : k \in bad \ overwritten =>
           health[k].blacklisted \/ ~health[k].measured

\* Nothing is blacklisted at first.
LEMMA BlacklistInvInit == RouterInit => BlacklistInv
BY DEF RouterInit, BlacklistInv, Key

\* The selected key is a candidate, or the last resort of groups that have no
\* candidate as far as Redis answered (getFastestForGroup).
LEMMA SelectionInGroups ==
    ASSUME NEW ok1 \in BOOLEAN, NEW ok2 \in BOOLEAN,
           NEW k \in getFastestForGroup(ok1, ok2)
    PROVE  /\ k \in Key
           /\ \/ k \in Available(Key)
              \/ /\ k = lastResort
                 /\ ok1 => Available(Primary) = {}
                 /\ ok2 => Available(FallbackGroup) = {}
<1>1. lastResort \in Key
  BY DEF lastResort, Key
<1>2. CASE k \in fastestAvailable(Primary, ok1)
           \/ k \in fastestAvailable(FallbackGroup, ok2)
  BY <1>2 DEF fastestAvailable, Available, Key
<1>3. CASE /\ fastestAvailable(Primary, ok1) = {}
           /\ fastestAvailable(FallbackGroup, ok2) = {}
           /\ k = lastResort
  BY <1>1, <1>3 DEF fastestAvailable
<1> QED
  BY <1>2, <1>3 DEF getFastestForGroup

\* Every step keeps such an endpoint from being a candidate.
LEMMA BlacklistInvNext == BlacklistInv /\ [RouterNext]_routerVars => BlacklistInv'
<1> SUFFICES ASSUME BlacklistInv, [RouterNext]_routerVars PROVE BlacklistInv'
  OBVIOUS
<1> USE DEF BlacklistInv
<1>0. ownFallback \in Key /\ Primary \subseteq Key
  BY DEF Key
<1>1. ASSUME NEW c \in Call, NEW ok1 \in BOOLEAN, NEW ok2 \in BOOLEAN,
             Select(c, ok1, ok2)
      PROVE  BlacklistInv'
  <2>1. PICK k \in getFastestForGroup(ok1, ok2) :
            config' = [config EXCEPT ![c] = k]
    BY <1>1 DEF Select
  <2>2. config' \in [Call -> Key]
    BY <2>1, SelectionInGroups
  <2> QED
    BY <1>1, <2>2 DEF Select, redisVars, pollVars
<1>2. ASSUME NEW c \in Call, Interrupted(c) PROVE BlacklistInv'
  BY <1>0, <1>2 DEF Interrupted, Return, redisVars, pollVars
<1>3. ASSUME NEW c \in Call, StreamFails(c) PROVE BlacklistInv'
  <2>1. health[config[c]].measured \in BOOLEAN
    OBVIOUS
  <2>2. found' \in [Call -> BOOLEAN]
    BY <1>3, <2>1 DEF StreamFails
  <2> QED
    BY <1>3, <2>2 DEF StreamFails, redisVars, pollVars
<1>4. ASSUME NEW c \in Call, BlacklistFails(c) PROVE BlacklistInv'
  BY <1>0, <1>4 DEF BlacklistFails, Return, redisVars, pollVars
<1>5. ASSUME NEW c \in Call, blacklistForLiveError(c) PROVE BlacklistInv'
  <2> DEFINE r == [measured |-> found[c], blacklisted |-> TRUE]
  <2>1. /\ health' = [health EXCEPT ![config[c]] = r]
        /\ bad' = bad \cup {config[c]} /\ overwritten' = overwritten \ {config[c]}
    BY <1>5 DEF blacklistForLiveError
  <2>2. r \in [measured : BOOLEAN, blacklisted : BOOLEAN] /\ r.blacklisted
    OBVIOUS
  <2>3. config[c] \in Key
    OBVIOUS
  <2> HIDE DEF r
  <2>4. health' \in [Key -> [measured : BOOLEAN, blacklisted : BOOLEAN]]
    BY <2>1, <2>2, <2>3
  <2>5. \A k \in Key : health'[k] = IF k = config[c] THEN r ELSE health[k]
    BY <2>1, <2>3
  <2>6. ASSUME NEW k \in Key, k \in bad' \ overwritten'
        PROVE  health'[k].blacklisted \/ ~health'[k].measured
    BY <2>1, <2>2, <2>5, <2>6
  <2> QED
    BY <1>0, <1>5, <2>4, <2>6 DEF blacklistForLiveError, Return, pollVars
<1>6. ASSUME NEW c \in Call, NEW slow \in BOOLEAN, Served(c, slow)
      PROVE  BlacklistInv'
  BY <1>0, <1>6 DEF Served, Return, redisVars, pollVars
<1>7. CASE AcquireLock \/ LockNotAcquired \/ PostFails \/ LockExpires
  BY <1>7 DEF AcquireLock, LockNotAcquired, PostFails, LockExpires, redisVars
<1>8. CASE postPoll
  BY <1>8 DEF postPoll, redisVars
<1>9. ASSUME NEW k \in Primary, Probe(k) PROVE BlacklistInv'
  BY <1>9 DEF Probe
<1>10. ASSUME NEW k \in Primary, RecordProbe(k) PROVE BlacklistInv'
  <2> DEFINE r == [measured |-> health[k].measured \/ poll[k] = "good",
                   blacklisted |-> poll[k] = "failed"]
  <2>1. /\ health' = [health EXCEPT ![k] = r] /\ bad' = bad
        /\ overwritten' = IF poll[k] = "good" THEN overwritten \cup ({k} \cap bad)
                          ELSE overwritten \ {k}
    BY <1>10 DEF RecordProbe
  <2>2. r \in [measured : BOOLEAN, blacklisted : BOOLEAN]
    OBVIOUS
  <2>3. poll[k] # "good" => r.blacklisted
    BY <1>10 DEF RecordProbe
  <2> HIDE DEF r
  <2>4. health' \in [Key -> [measured : BOOLEAN, blacklisted : BOOLEAN]]
    BY <1>0, <2>1, <2>2
  <2>5. \A j \in Key : health'[j] = IF j = k THEN r ELSE health[j]
    BY <1>0, <2>1
  <2>6. ASSUME NEW j \in Key, j \in bad' \ overwritten'
        PROVE  health'[j].blacklisted \/ ~health'[j].measured
    <3>1. CASE j = k
      BY <2>1, <2>3, <2>5, <2>6, <3>1
    <3>2. CASE j # k
      BY <2>1, <2>5, <2>6, <3>2
    <3> QED
      BY <3>1, <3>2
  <2> QED
    BY <1>10, <2>4, <2>6 DEF RecordProbe
<1>11. ASSUME NEW k \in Primary, EndpointChanges(k) PROVE BlacklistInv'
  BY <1>11 DEF EndpointChanges, redisVars, pollVars
<1>12. ASSUME NEW k \in Key, RecordExpires(k) PROVE BlacklistInv'
  <2> DEFINE r == [measured |-> FALSE, blacklisted |-> FALSE]
  <2>1. \A j \in Key : health'[j] = IF j = k THEN r ELSE health[j]
    BY <1>12 DEF RecordExpires
  <2>2. health' \in [Key -> [measured : BOOLEAN, blacklisted : BOOLEAN]]
    BY <1>12 DEF RecordExpires
  <2> QED
    BY <1>12, <2>1, <2>2 DEF RecordExpires, pollVars
<1>13. CASE UNCHANGED routerVars
  BY <1>13 DEF routerVars
<1> QED
  BY <1>1, <1>2, <1>3, <1>4, <1>5, <1>6, <1>7, <1>8, <1>9, <1>10, <1>11, <1>12,
     <1>13 DEF RouterNext, handleError, Poller

\* A call does not select an endpoint that was blacklisted and has not answered
\* a probe since, unless an older probe was written over it or nothing but the
\* last resort is left (blacklistForLiveError racing getFastestForGroup of
\* other calls, the poller and the expiry of records).
THEOREM AvoidsBlacklisted == RouterSpec => NextTurnAvoids
<1> DEFINE Avoids ==
        \A c \in Call, ok1, ok2 \in BOOLEAN :
            Select(c, ok1, ok2) /\ config'[c] \in bad \ overwritten =>
                /\ config'[c] = lastResort
                /\ ok1 => Available(Primary) = {}
                /\ ok2 => Available(FallbackGroup) = {}
<1>1. BlacklistInv => Avoids
  <2> SUFFICES ASSUME BlacklistInv, NEW c \in Call,
                      NEW ok1 \in BOOLEAN, NEW ok2 \in BOOLEAN,
                      Select(c, ok1, ok2), config'[c] \in bad \ overwritten
               PROVE  /\ config'[c] = lastResort
                      /\ ok1 => Available(Primary) = {}
                      /\ ok2 => Available(FallbackGroup) = {}
    OBVIOUS
  <2>1. PICK k \in getFastestForGroup(ok1, ok2) :
            config' = [config EXCEPT ![c] = k]
    BY DEF Select
  <2>2. config'[c] = k
    BY <2>1 DEF BlacklistInv
  <2>3. k \notin Available(Key)
    BY <2>2 DEF BlacklistInv, Available
  <2> QED
    BY <2>2, <2>3, SelectionInGroups
<1> QED
  BY BlacklistInvInit, BlacklistInvNext, <1>1, PTL DEF RouterSpec, NextTurnAvoids
=============================================================================
