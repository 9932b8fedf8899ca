------------------------ MODULE ShareManagerProofs ------------------------
(* Theorems about ShareManager, for any sets of shares and viewers, any    *)
(* timing constants and any requests.                                      *)
EXTENDS ShareManager, FiniteSetTheorems, TLAPS

(* The invariant: the two clocks tie the age of a session and of an        *)
(* expired share to the next round of cleanupLoop.                         *)

SlotClock ==
  \A s \in stored : \A v \in sessions[s] : idle[v] <= IdleLimit + SweepPeriod - due

ShareClock == \A s \in stored : left[s] >= due - SweepPeriod

ShareInv == TypeOK /\ WithinLimit /\ RevokedEmpty /\ SlotClock /\ ShareClock

LEMMA FreshFacts ==
  ASSUME TypeOK, NEW s \in Shares
  PROVE  Fresh(s) \subseteq sessions[s] /\ \A v \in Fresh(s) : idle[v] <= IdleLimit
  BY DEF Fresh

\* EffectiveLimit and EffectiveMinutes repair every request.
LEMMA EffectiveFacts ==
  /\ \A n \in Int : EffectiveLimit(n) \in 1..5
  /\ \A n \in Int : EffectiveMinutes(n) \in Nat \ {0}
  BY ShareAssumption DEF EffectiveLimit, EffectiveMinutes

LEMMA ShareInit == Init => ShareInv
<1> SUFFICES ASSUME Init PROVE ShareInv
  OBVIOUS
<1>1. (CHOOSE s \in Shares : TRUE) \in Shares
  BY ShareAssumption
<1>2. TypeOK
  BY <1>1, ShareAssumption DEF Init, TypeOK
<1>3. WithinLimit
  BY FS_EmptySet DEF Init, WithinLimit
<1> QED
  BY <1>2, <1>3 DEF Init, ShareInv, RevokedEmpty, SlotClock, ShareClock

\* Steps that only take sessions and shares away, or show that a viewer is alive.
LEMMA ShareShrink ==
  ASSUME ShareInv, UNCHANGED <<created, left, max, issued, of, due>>,
         stored' \subseteq stored, revoked' \subseteq stored',
         sessions' \in [Shares -> SUBSET issued],
         \A s \in Shares : sessions'[s] \subseteq sessions[s],
         \A s \in Shares : s \notin stored' \/ s \in revoked' => sessions'[s] = {},
         idle' \in [ViewerIds -> 0..IdleLimit + SweepPeriod + 1],
         \A v \in ViewerIds : idle'[v] <= idle[v],
         page' \in [ViewerIds -> {"none", "watching", "paused", "closed"}],
         served' \subseteq issued
  PROVE  ShareInv'
<1>1. TypeOK'
  BY DEF ShareInv, TypeOK
<1>2. ASSUME NEW s \in Shares
      PROVE  IsFiniteSet(sessions'[s]) /\ Cardinality(sessions'[s]) <= max[s]
  <2>1. IsFiniteSet(sessions[s]) /\ Cardinality(sessions[s]) <= max[s]
    BY DEF ShareInv, WithinLimit
  <2>2. sessions'[s] \in SUBSET sessions[s]
    OBVIOUS
  <2>3. /\ IsFiniteSet(sessions'[s])
        /\ Cardinality(sessions'[s]) <= Cardinality(sessions[s])
    BY <2>1, <2>2, FS_Subset
  <2>4. Cardinality(sessions[s]) \in Nat
    BY <2>1, FS_CardinalityType
  <2>5. Cardinality(sessions'[s]) \in Nat
    BY <2>3, FS_CardinalityType
  <2>6. max[s] \in Int
    BY DEF ShareInv, TypeOK
  <2> QED
    BY <2>1, <2>3, <2>4, <2>5, <2>6
<1>3. WithinLimit'
  BY <1>2 DEF WithinLimit
<1>4. RevokedEmpty'
  BY <1>1 DEF RevokedEmpty, TypeOK
<1>5. SlotClock'
  <2>1. SUFFICES ASSUME NEW s \in stored', NEW v \in sessions'[s]
                 PROVE  idle'[v] <= IdleLimit + SweepPeriod - due
    BY DEF SlotClock
  <2>2. s \in stored /\ s \in Shares /\ v \in sessions[s] /\ v \in ViewerIds
    BY <1>1, <2>1 DEF TypeOK
  <2>3. idle[v] <= IdleLimit + SweepPeriod - due /\ idle'[v] <= idle[v]
    BY <2>2 DEF ShareInv, SlotClock
  <2>4. idle[v] \in Int /\ idle'[v] \in Int /\ due \in Int /\ IdleLimit \in Int /\ SweepPeriod \in Int
    BY <2>2, ShareAssumption DEF ShareInv, TypeOK
  <2> QED
    BY <2>3, <2>4
<1>6. ShareClock'
  BY DEF ShareInv, ShareClock
<1> QED
  BY <1>1, <1>3, <1>4, <1>5, <1>6 DEF ShareInv

LEMMA ShareCreate ==
  ASSUME ShareInv, NEW s \in Shares, NEW minutes \in Minutes, NEW limit \in Limits,
         Create(s, minutes, limit)
  PROVE  ShareInv'
<1>0. minutes \in Int /\ limit \in Int
  BY ShareAssumption
<1>1. EffectiveLimit(limit) \in 1..5 /\ EffectiveMinutes(minutes) \in Nat \ {0}
  BY <1>0, EffectiveFacts
<1>2. s \notin stored /\ s \notin revoked /\ sessions[s] = {}
  BY DEF Create, ShareInv, TypeOK
<1>3. TypeOK'
  <2>1. left' \in [Shares -> Int] /\ max' \in [Shares -> 0..5] /\ \A t \in created' : max'[t] > 0
    BY <1>1 DEF Create, ShareInv, TypeOK
  <2> QED
    BY <2>1 DEF Create, ShareInv, TypeOK, pages
<1>4. WithinLimit'
  <2>1. \A t \in Shares \ {s} : max'[t] = max[t]
    BY DEF Create, ShareInv, TypeOK
  <2>2. max'[s] \in 1..5 /\ sessions'[s] = {}
    BY <1>1, <1>2 DEF Create, ShareInv, TypeOK
  <2>3. IsFiniteSet(sessions'[s]) /\ Cardinality(sessions'[s]) <= max'[s]
    BY <2>2, FS_EmptySet
  <2> QED
    BY <2>1, <2>3 DEF Create, ShareInv, WithinLimit
<1>5. RevokedEmpty'
  BY DEF Create, ShareInv, RevokedEmpty
<1>6. SlotClock'
  BY <1>2 DEF Create, ShareInv, SlotClock
<1>7. ShareClock'
  <2>1. \A t \in stored : t # s /\ left'[t] = left[t]
    BY <1>2 DEF Create, ShareInv, TypeOK
  <2>2. left'[s] \in Nat
    BY <1>1 DEF Create, ShareInv, TypeOK
  <2>3. left'[s] >= due - SweepPeriod
    BY <2>2, ShareAssumption DEF ShareInv, TypeOK
  <2> QED
    BY <2>1, <2>3 DEF Create, ShareInv, ShareClock
<1> QED
  BY <1>3, <1>4, <1>5, <1>6, <1>7 DEF ShareInv

\* The step that adds a session.
LEMMA ShareJoin ==
  ASSUME ShareInv, NEW s \in Shares, NEW v \in ViewerIds, StartViewer(s, v), ~NoRoom(s)
  PROVE  ShareInv'
<1> USE DEF SetSessions, Seen
<1>0. /\ v \notin issued /\ Usable(s)
      /\ sessions' = [sessions EXCEPT ![s] = Fresh(s) \cup {v}]
      /\ idle' = [idle EXCEPT ![v] = 0]
      /\ issued' = issued \cup {v} /\ of' = [of EXCEPT ![v] = s]
      /\ page' = [page EXCEPT ![v] = "watching"]
      /\ UNCHANGED <<created, stored, revoked, left, max, served, due>>
  BY DEF StartViewer
<1>1. Fresh(s) \in SUBSET sessions[s]
  BY DEF Fresh
<1>2. /\ sessions'[s] = Fresh(s) \cup {v}
      /\ \A t \in Shares \ {s} : sessions'[t] = sessions[t]
  BY <1>0 DEF ShareInv, TypeOK
<1>3. TypeOK'
  <2>1. sessions' \in [Shares -> SUBSET issued']
    BY <1>0, <1>1 DEF ShareInv, TypeOK
  <2>2. idle' \in [ViewerIds -> 0..IdleLimit + SweepPeriod + 1]
    BY <1>0, ShareAssumption DEF ShareInv, TypeOK
  <2>3. of' \in [ViewerIds -> Shares] /\ issued' \subseteq ViewerIds
    BY <1>0 DEF ShareInv, TypeOK
  <2>4. \A t \in Shares : \A u \in sessions'[t] : of'[u] = t
    <3>1. SUFFICES ASSUME NEW t \in Shares, NEW u \in sessions'[t] PROVE of'[u] = t
      OBVIOUS
    <3>2. u \in ViewerIds /\ (u = v => t = s)
      BY <1>0, <1>1, <1>2, <2>1, <2>3 DEF ShareInv, TypeOK
    <3>3. CASE u = v
      BY <1>0, <3>2, <3>3 DEF ShareInv, TypeOK
    <3>4. CASE u # v
      <4>1. u \in sessions[t]
        BY <1>1, <1>2, <3>4
      <4> QED
        BY <1>0, <3>2, <3>4, <4>1 DEF ShareInv, TypeOK
    <3> QED
      BY <3>3, <3>4
  <2>5. page' \in [ViewerIds -> {"none", "watching", "paused", "closed"}]
    BY <1>0 DEF ShareInv, TypeOK
  <2>6. \A t \in Shares \ stored' : sessions'[t] = {}
    BY <1>0, <1>2 DEF ShareInv, TypeOK, Usable
  <2> QED
    BY <1>0, <2>1, <2>2, <2>3, <2>4, <2>5, <2>6 DEF ShareInv, TypeOK
<1>4. WithinLimit'
  <2>1. IsFiniteSet(sessions[s]) /\ max[s] \in Int
    BY DEF ShareInv, WithinLimit, TypeOK
  <2>2. IsFiniteSet(Fresh(s)) /\ Cardinality(Fresh(s)) \in Nat
    BY <1>1, <2>1, FS_Subset, FS_CardinalityType
  <2>3. Cardinality(Fresh(s)) < max[s]
    BY <2>1, <2>2 DEF NoRoom
  <2>4. /\ IsFiniteSet(Fresh(s) \cup {v})
        /\ Cardinality(Fresh(s) \cup {v}) \in {Cardinality(Fresh(s)), Cardinality(Fresh(s)) + 1}
    BY <2>2, FS_AddElement
  <2>5. IsFiniteSet(sessions'[s]) /\ Cardinality(sessions'[s]) <= max[s]
    BY <1>2, <2>1, <2>2, <2>3, <2>4
  <2> QED
    BY <1>0, <1>2, <2>5 DEF ShareInv, WithinLimit
<1>5. RevokedEmpty'
  BY <1>0, <1>2 DEF ShareInv, RevokedEmpty, Usable, TypeOK
<1>6. SlotClock'
  <2>1. SUFFICES ASSUME NEW t \in stored, NEW u \in sessions'[t]
                 PROVE  idle'[u] <= IdleLimit + SweepPeriod - due
    BY <1>0 DEF SlotClock
  <2>2. CASE u = v
    <3>1. idle'[u] = 0
      BY <1>0, <2>2 DEF ShareInv, TypeOK
    <3> QED
      BY <3>1, ShareAssumption DEF ShareInv, TypeOK
  <2>3. CASE u # v
    <3>1. u \in sessions[t]
      BY <1>1, <1>2, <2>3 DEF ShareInv, TypeOK
    <3>2. u \in ViewerIds /\ idle'[u] = idle[u]
      BY <1>0, <2>3, <3>1 DEF ShareInv, TypeOK
    <3> QED
      BY <3>1, <3>2 DEF ShareInv, SlotClock
  <2> QED
    BY <2>2, <2>3
<1>7. ShareClock'
  BY <1>0 DEF ShareInv, ShareClock
<1> QED
  BY <1>3, <1>4, <1>5, <1>6, <1>7 DEF ShareInv

LEMMA ShareSweep == ShareInv /\ Sweep => ShareInv'
<1> SUFFICES ASSUME ShareInv, Sweep PROVE ShareInv'
  OBVIOUS
<1>1. /\ due = 0 /\ due' = SweepPeriod
      /\ stored' = stored \ SweepExpired /\ revoked' = revoked \ SweepExpired
      /\ sessions' = [s \in Shares |-> IF s \in stored \ SweepExpired THEN Fresh(s) ELSE {}]
      /\ UNCHANGED <<created, left, max, idle, issued, of, page, served>>
  BY DEF Sweep, Forget, pages
<1>2. \A s \in Shares : Fresh(s) \in SUBSET sessions[s]
  BY DEF Fresh
<1>3. \A s \in Shares : sessions'[s] \in SUBSET sessions[s]
  BY <1>1, <1>2
<1>4. TypeOK'
  <2>1. sessions' \in [Shares -> SUBSET issued']
    BY <1>1, <1>3 DEF ShareInv, TypeOK
  <2>2. \A s \in Shares \ stored' : sessions'[s] = {}
    BY <1>1
  <2>3. \A s \in Shares : \A v \in sessions'[s] : of'[v] = s
    BY <1>1, <1>3 DEF ShareInv, TypeOK
  <2> QED
    BY <1>1, <2>1, <2>2, <2>3, ShareAssumption DEF ShareInv, TypeOK
<1>5. ASSUME NEW s \in Shares
      PROVE  IsFiniteSet(sessions'[s]) /\ Cardinality(sessions'[s]) <= max[s]
  <2>1. IsFiniteSet(sessions[s]) /\ Cardinality(sessions[s]) <= max[s] /\ max[s] \in Int
    BY DEF ShareInv, WithinLimit, TypeOK
  <2>2. sessions'[s] \in SUBSET sessions[s]
    BY <1>3
  <2>3. /\ IsFiniteSet(sessions'[s])
        /\ Cardinality(sessions'[s]) <= Cardinality(sessions[s])
    BY <2>1, <2>2, FS_Subset
  <2>4. Cardinality(sessions[s]) \in Nat
    BY <2>1, FS_CardinalityType
  <2>5. Cardinality(sessions'[s]) \in Nat
    BY <2>3, FS_CardinalityType
  <2> QED
    BY <2>1, <2>3, <2>4, <2>5
<1>6. WithinLimit'
  BY <1>1, <1>5 DEF WithinLimit
<1>7. RevokedEmpty'
  <2>1. \A s \in revoked : s \in Shares /\ sessions[s] = {}
    BY DEF ShareInv, RevokedEmpty, TypeOK
  <2> QED
    BY <1>1, <1>3, <2>1 DEF RevokedEmpty
<1>8. SlotClock'
  <2>1. SUFFICES ASSUME NEW s \in stored', NEW v \in sessions'[s]
                 PROVE  idle[v] <= IdleLimit + SweepPeriod - SweepPeriod
    BY <1>1 DEF SlotClock
  <2>2. s \in Shares /\ s \in stored \ SweepExpired
    BY <1>1 DEF ShareInv, TypeOK
  <2>3. v \in Fresh(s)
    BY <1>1, <2>1, <2>2
  <2>4. v \in ViewerIds /\ idle[v] <= IdleLimit
    BY <1>4, <2>2, <2>3, FreshFacts DEF ShareInv, TypeOK
  <2> QED
    BY <2>4, ShareAssumption DEF ShareInv, TypeOK
<1>9. ShareClock'
  <2>1. \A s \in stored' : s \in Shares /\ ~(left[s] < 0)
    BY <1>1 DEF SweepExpired, Expired, ShareInv, TypeOK
  <2> QED
    BY <1>1, <2>1, ShareAssumption DEF ShareInv, ShareClock, TypeOK
<1> QED
  BY <1>4, <1>6, <1>7, <1>8, <1>9 DEF ShareInv

LEMMA ShareTick == ShareInv /\ Tick => ShareInv'
<1> SUFFICES ASSUME ShareInv, Tick PROVE ShareInv'
  OBVIOUS
<1>1. /\ due > 0 /\ due' = due - 1
      /\ UNCHANGED <<created, stored, revoked, max, sessions, issued, of, page, served>>
  BY DEF Tick, pages
<1>2. due \in 0..SweepPeriod /\ IdleLimit \in Nat /\ SweepPeriod \in Nat
  BY ShareAssumption DEF ShareInv, TypeOK
<1>3. \A v \in ViewerIds : /\ idle[v] \in 0..IdleLimit + SweepPeriod + 1
                           /\ idle'[v] \in {idle[v], idle[v] + 1}
                           /\ idle'[v] \in 0..IdleLimit + SweepPeriod + 1
  BY <1>2 DEF Tick, ShareInv, TypeOK
<1>4. TypeOK'
  <2>1. idle' \in [ViewerIds -> 0..IdleLimit + SweepPeriod + 1]
    BY <1>3 DEF Tick
  <2>2. left' \in [Shares -> Int]
    BY <1>2 DEF Tick, ShareInv, TypeOK
  <2>3. due' \in 0..SweepPeriod
    BY <1>1, <1>2
  <2> QED
    BY <1>1, <2>1, <2>2, <2>3 DEF ShareInv, TypeOK
<1>5. WithinLimit' /\ RevokedEmpty'
  BY <1>1 DEF ShareInv, WithinLimit, RevokedEmpty
<1>6. SlotClock'
  <2>1. SUFFICES ASSUME NEW s \in stored, NEW v \in sessions[s]
                 PROVE  idle'[v] <= IdleLimit + SweepPeriod - due'
    BY <1>1 DEF SlotClock
  <2>2. s \in Shares /\ v \in ViewerIds
    BY <2>1 DEF ShareInv, TypeOK
  <2>3. idle[v] <= IdleLimit + SweepPeriod - due
    BY <2>1 DEF ShareInv, SlotClock
  <2>4. idle[v] \in Int /\ idle'[v] \in Int /\ idle'[v] \in {idle[v], idle[v] + 1}
    BY <1>3, <2>2
  <2> QED
    BY <1>1, <1>2, <2>3, <2>4
<1>7. ShareClock'
  <2>1. SUFFICES ASSUME NEW s \in stored PROVE left'[s] >= due' - SweepPeriod
    BY <1>1 DEF ShareClock
  <2>2. s \in Shares /\ left[s] \in Int /\ left[s] >= due - SweepPeriod
    BY <2>1 DEF ShareInv, TypeOK, ShareClock
  <2>3. left'[s] \in {left[s], left[s] - 1}
    BY <2>2 DEF Tick
  <2> QED
    BY <1>1, <1>2, <2>2, <2>3
<1> QED
  BY <1>4, <1>5, <1>6, <1>7 DEF ShareInv

(* The other steps, each by ShareShrink.                                   *)

LEMMA ShareFindExpired ==
  ASSUME ShareInv, NEW s \in Shares, FindExpired(s)
  PROVE  ShareInv'
<1>1. /\ stored' = stored \ {s} /\ revoked' = revoked \ {s}
      /\ sessions' = [sessions EXCEPT ![s] = {}]
      /\ UNCHANGED <<created, left, max, idle, issued, of, page, served, due>>
  BY DEF FindExpired, Forget, SetSessions, pages
<1>2. /\ \A t \in Shares : sessions'[t] \subseteq sessions[t]
      /\ sessions' \in [Shares -> SUBSET issued]
      /\ \A t \in Shares : t \notin stored' \/ t \in revoked' => sessions'[t] = {}
  BY <1>1 DEF ShareInv, TypeOK, RevokedEmpty
<1>3. \A v \in ViewerIds : idle'[v] <= idle[v]
  BY <1>1, ShareAssumption DEF ShareInv, TypeOK
<1>4. /\ stored' \subseteq stored /\ revoked' \subseteq stored'
      /\ idle' \in [ViewerIds -> 0..IdleLimit + SweepPeriod + 1]
      /\ page' \in [ViewerIds -> {"none", "watching", "paused", "closed"}]
      /\ served' \subseteq issued
  BY <1>1 DEF ShareInv, TypeOK
<1> QED
  BY <1>1, <1>2, <1>3, <1>4, ShareShrink

\* Replacing the sessions of one share by fewer.
LEMMA ShareFewer ==
  ASSUME ShareInv, NEW s \in Shares, NEW S, S \subseteq sessions[s], SetSessions(s, S),
         UNCHANGED <<created, stored, left, max, issued, of, due>>,
         revoked' = revoked \/ (S = {} /\ revoked' = revoked \cup {s} /\ s \in stored),
         idle' \in [ViewerIds -> 0..IdleLimit + SweepPeriod + 1],
         \A v \in ViewerIds : idle'[v] <= idle[v],
         page' \in [ViewerIds -> {"none", "watching", "paused", "closed"}],
         served' \subseteq issued
  PROVE  ShareInv'
<1>1. sessions' = [sessions EXCEPT ![s] = S]
  BY DEF SetSessions
<1>2. /\ \A t \in Shares : sessions'[t] \subseteq sessions[t]
      /\ sessions' \in [Shares -> SUBSET issued]
  BY <1>1 DEF ShareInv, TypeOK
<1>3. stored' \subseteq stored /\ revoked' \subseteq stored'
  BY DEF ShareInv, TypeOK
<1>4. ASSUME NEW t \in Shares, t \notin stored' \/ t \in revoked'
      PROVE  sessions'[t] = {}
  <2>1. CASE t \notin stored \/ t \in revoked
    BY <1>2, <2>1 DEF ShareInv, TypeOK, RevokedEmpty
  <2>2. CASE ~(t \notin stored \/ t \in revoked)
    <3>1. t = s /\ S = {}
      BY <1>4, <2>2
    <3> QED
      BY <1>1, <3>1 DEF ShareInv, TypeOK
  <2> QED
    BY <2>1, <2>2
<1> QED
  BY <1>2, <1>3, <1>4, ShareShrink

\* The age of a session that is seen, or of none.
LEMMA SeenFacts ==
  ASSUME ShareInv, NEW v \in ViewerIds, Seen(v) \/ UNCHANGED idle
  PROVE  /\ idle' \in [ViewerIds -> 0..IdleLimit + SweepPeriod + 1]
         /\ \A u \in ViewerIds : idle'[u] <= idle[u]
<1>1. \A u \in ViewerIds : idle[u] \in 0..IdleLimit + SweepPeriod + 1
  BY DEF ShareInv, TypeOK
<1>2. IdleLimit \in Nat /\ SweepPeriod \in Nat
  BY ShareAssumption
<1>3. CASE Seen(v)
  <2>1. idle' = [idle EXCEPT ![v] = 0] /\ idle \in [ViewerIds -> 0..IdleLimit + SweepPeriod + 1]
    BY <1>3 DEF Seen, ShareInv, TypeOK
  <2> QED
    BY <1>1, <1>2, <2>1
<1>4. CASE UNCHANGED idle
  BY <1>1, <1>2, <1>4 DEF ShareInv, TypeOK
<1> QED
  BY <1>3, <1>4

LEMMA PageFacts ==
  ASSUME ShareInv, NEW v \in ViewerIds,
         \/ UNCHANGED page
         \/ \E w \in {"paused", "closed"} : page' = [page EXCEPT ![v] = w]
  PROVE  page' \in [ViewerIds -> {"none", "watching", "paused", "closed"}]
  BY DEF ShareInv, TypeOK

\* A cleanup: of CleanUp, of a start that is refused, of a token that is checked.
LEMMA ShareCleanUp ==
  ASSUME ShareInv, NEW s \in Shares, NEW v \in ViewerIds, SetSessions(s, Fresh(s)),
         UNCHANGED <<created, stored, revoked, left, max, issued, of, due, page>>,
         Seen(v) \/ UNCHANGED idle, served' \subseteq issued
  PROVE  ShareInv'
<1>1. Fresh(s) \subseteq sessions[s]
  BY DEF Fresh
<1>2. page' \in [ViewerIds -> {"none", "watching", "paused", "closed"}]
  BY DEF ShareInv, TypeOK
<1> QED
  BY <1>1, <1>2, SeenFacts, ShareFewer

LEMMA ShareStartViewer ==
  ASSUME ShareInv, NEW s \in Shares, NEW v \in ViewerIds, StartViewer(s, v)
  PROVE  ShareInv'
<1>1. CASE NoRoom(s)
  <2>1. /\ SetSessions(s, Fresh(s)) /\ UNCHANGED idle
        /\ UNCHANGED <<created, stored, revoked, left, max, issued, of, due, page>>
        /\ served' = served
    BY <1>1 DEF StartViewer, pages
  <2>2. served' \subseteq issued
    BY <2>1 DEF ShareInv, TypeOK
  <2> QED
    BY <2>1, <2>2, ShareCleanUp
<1> QED
  BY <1>1, ShareJoin

LEMMA ShareHeartbeat ==
  ASSUME ShareInv, NEW v \in ViewerIds, Heartbeat(v)
  PROVE  ShareInv'
<1> DEFINE s == of[v]
<1>0. s \in Shares /\ UNCHANGED <<issued, of, served, due>>
  BY DEF Heartbeat, ShareInv, TypeOK
<1>1. /\ \/ UNCHANGED page
         \/ \E w \in {"paused", "closed"} : page' = [page EXCEPT ![v] = w]
      /\ Seen(v) \/ UNCHANGED idle
  BY DEF Heartbeat, Pauses, Seen
<1>2. /\ page' \in [ViewerIds -> {"none", "watching", "paused", "closed"}]
      /\ idle' \in [ViewerIds -> 0..IdleLimit + SweepPeriod + 1]
      /\ \A u \in ViewerIds : idle'[u] <= idle[u]
  BY <1>1, PageFacts, SeenFacts
<1>3. CASE UNCHANGED table
  <2>1. /\ stored' \subseteq stored /\ revoked' \subseteq stored'
        /\ sessions' \in [Shares -> SUBSET issued] /\ served' \subseteq issued
        /\ \A t \in Shares : sessions'[t] \subseteq sessions[t]
        /\ \A t \in Shares : t \notin stored' \/ t \in revoked' => sessions'[t] = {}
    BY <1>0, <1>3 DEF table, ShareInv, TypeOK, RevokedEmpty
  <2>2. UNCHANGED <<created, left, max, issued, of, due>>
    BY <1>0, <1>3 DEF table
  <2> QED
    BY <1>2, <2>1, <2>2, ShareShrink
<1>4. CASE Forget({s}) /\ SetSessions(s, {}) /\ UNCHANGED <<created, left, max>>
  <2>1. /\ stored' = stored \ {s} /\ revoked' = revoked \ {s}
        /\ sessions' = [sessions EXCEPT ![s] = {}]
    BY <1>4 DEF Forget, SetSessions
  <2>2. /\ \A t \in Shares : sessions'[t] \subseteq sessions[t]
        /\ sessions' \in [Shares -> SUBSET issued]
        /\ \A t \in Shares : t \notin stored' \/ t \in revoked' => sessions'[t] = {}
    BY <1>0, <2>1 DEF ShareInv, TypeOK, RevokedEmpty
  <2>3. stored' \subseteq stored /\ revoked' \subseteq stored' /\ served' \subseteq issued
    BY <1>0, <2>1 DEF ShareInv, TypeOK
  <2> QED
    BY <1>0, <1>2, <1>4, <2>2, <2>3, ShareShrink
<1>5. UNCHANGED table \/ (Forget({s}) /\ SetSessions(s, {}) /\ UNCHANGED <<created, left, max>>)
  BY DEF Heartbeat
<1> QED
  BY <1>3, <1>4, <1>5

LEMMA ShareValidate ==
  ASSUME ShareInv, NEW v \in ViewerIds, ValidateAccessToken(v)
  PROVE  ShareInv'
<1>1. of[v] \in Shares
  BY DEF ShareInv, TypeOK
<1>2. /\ SetSessions(of[v], Fresh(of[v]))
      /\ Seen(v) \/ UNCHANGED idle
      /\ UNCHANGED <<created, stored, revoked, left, max, issued, of, due, page>>
  BY DEF ValidateAccessToken, pages
<1>3. served' \subseteq issued
  <2>1. of[v] \in Shares /\ served \subseteq issued
    BY DEF ShareInv, TypeOK
  <2>2. CASE v \in Fresh(of[v])
    <3>1. v \in issued
      BY <2>1, <2>2 DEF ShareInv, TypeOK, Fresh
    <3> QED
      BY <2>1, <2>2, <3>1 DEF ValidateAccessToken
  <2>3. CASE v \notin Fresh(of[v])
    BY <2>1, <2>3 DEF ValidateAccessToken
  <2> QED
    BY <2>2, <2>3
<1> QED
  BY <1>1, <1>2, <1>3, ShareCleanUp

\* The page and its connection: nothing of the table is touched, or one session ends.
LEMMA SharePage ==
  ASSUME ShareInv, NEW v \in ViewerIds,
         HeartbeatLost(v) \/ Disconnect(v) \/ ClosePage(v)
  PROVE  ShareInv'
<1>0. of[v] \in Shares
  BY DEF ShareInv, TypeOK
<1>1. /\ UNCHANGED <<created, stored, revoked, left, max, idle, issued, of, due>>
      /\ served' \subseteq served
      /\ SetSessions(of[v], sessions[of[v]] \ {v}) \/ UNCHANGED sessions
      /\ \/ UNCHANGED page
         \/ \E w \in {"paused", "closed"} : page' = [page EXCEPT ![v] = w]
  BY DEF HeartbeatLost, Disconnect, ClosePage, StopViewer, Pauses, table, pages
<1>2. page' \in [ViewerIds -> {"none", "watching", "paused", "closed"}]
  BY <1>1, PageFacts
<1>3. \E S \in SUBSET sessions[of[v]] : SetSessions(of[v], S)
  <2>1. CASE SetSessions(of[v], sessions[of[v]] \ {v})
    <3>1. sessions[of[v]] \ {v} \in SUBSET sessions[of[v]]
      OBVIOUS
    <3> QED
      BY <2>1, <3>1
  <2>2. CASE UNCHANGED sessions
    <3>1. sessions' = [sessions EXCEPT ![of[v]] = sessions[of[v]]]
      BY <1>0, <2>2 DEF ShareInv, TypeOK
    <3> QED
      BY <3>1 DEF SetSessions
  <2> QED
    BY <1>1, <2>1, <2>2
<1>4. PICK S \in SUBSET sessions[of[v]] : SetSessions(of[v], S)
  BY <1>3
<1>5. served' \subseteq issued
  BY <1>1 DEF ShareInv, TypeOK
<1>6. /\ idle' \in [ViewerIds -> 0..IdleLimit + SweepPeriod + 1]
      /\ \A u \in ViewerIds : idle'[u] <= idle[u]
  BY <1>1, SeenFacts
<1> QED
  BY <1>0, <1>1, <1>2, <1>4, <1>5, <1>6, ShareFewer

LEMMA ShareRevoke ==
  ASSUME ShareInv, NEW s \in Shares, Revoke(s)
  PROVE  ShareInv'
<1>1. /\ SetSessions(s, {}) /\ revoked' = revoked \cup {s} /\ s \in stored
      /\ UNCHANGED <<created, stored, left, max, idle, issued, of, page, served, due>>
  BY DEF Revoke, RevokedSessions, pages
<1>2. /\ page' \in [ViewerIds -> {"none", "watching", "paused", "closed"}]
      /\ idle' \in [ViewerIds -> 0..IdleLimit + SweepPeriod + 1]
      /\ served' \subseteq issued
  BY <1>1 DEF ShareInv, TypeOK
<1>3. \A u \in ViewerIds : idle'[u] <= idle[u]
  BY <1>1, ShareAssumption DEF ShareInv, TypeOK
<1>4. {} \subseteq sessions[s]
  OBVIOUS
<1> QED
  BY <1>1, <1>2, <1>3, <1>4, ShareFewer

LEMMA ShareNext == ShareInv /\ [Next]_vars => ShareInv'
<1> SUFFICES ASSUME ShareInv, [Next]_vars PROVE ShareInv'
  OBVIOUS
<1>1. CASE UNCHANGED vars
  <2>1. UNCHANGED <<created, stored, revoked, left, max, sessions, idle, issued, of, page, served, due>>
    BY <1>1 DEF vars, table, pages
  <2> QED
    BY <2>1 DEF ShareInv, TypeOK, WithinLimit, RevokedEmpty, SlotClock, ShareClock
<1>2. ASSUME NEW s \in Shares, NEW minutes \in Minutes, NEW limit \in Limits,
             Create(s, minutes, limit)
      PROVE  ShareInv'
  BY <1>2, ShareCreate
<1>3. ASSUME NEW s \in Shares, FindExpired(s) PROVE ShareInv'
  BY <1>3, ShareFindExpired
<1>4. ASSUME NEW s \in Shares, CleanUp(s) PROVE ShareInv'
  <2>1. /\ Fresh(s) \subseteq sessions[s]
        /\ page' \in [ViewerIds -> {"none", "watching", "paused", "closed"}]
        /\ idle' \in [ViewerIds -> 0..IdleLimit + SweepPeriod + 1]
        /\ served' \subseteq issued
    BY <1>4 DEF CleanUp, Fresh, ShareInv, TypeOK, pages
  <2>2. \A u \in ViewerIds : idle'[u] <= idle[u]
    BY <1>4, ShareAssumption DEF CleanUp, ShareInv, TypeOK
  <2>3. /\ SetSessions(s, Fresh(s)) /\ revoked' = revoked
        /\ UNCHANGED <<created, stored, left, max, issued, of, due>>
    BY <1>4 DEF CleanUp, pages
  <2> QED
    BY <2>1, <2>2, <2>3, ShareFewer
<1>5. ASSUME NEW s \in Shares, Revoke(s) PROVE ShareInv'
  BY <1>5, ShareRevoke
<1>6. ASSUME NEW s \in Shares, NEW v \in ViewerIds, StartViewer(s, v) PROVE ShareInv'
  BY <1>6, ShareStartViewer
<1>7. ASSUME NEW v \in ViewerIds, Heartbeat(v) PROVE ShareInv'
  BY <1>7, ShareHeartbeat
<1>8. ASSUME NEW v \in ViewerIds, ValidateAccessToken(v) PROVE ShareInv'
  BY <1>8, ShareValidate
<1>9. ASSUME NEW v \in ViewerIds, HeartbeatLost(v) \/ Disconnect(v) \/ ClosePage(v)
      PROVE  ShareInv'
  BY <1>9, SharePage
<1> QED
  BY <1>1, <1>2, <1>3, <1>4, <1>5, <1>6, <1>7, <1>8, <1>9, ShareSweep, ShareTick DEF Next

LEMMA ShareInvariant == Spec => []ShareInv
  BY ShareInit, ShareNext, PTL DEF Spec

\* Whatever the requests, the ticker and the lost calls, the table stays well formed: every
\* limit is between 1 and 5, and a session belongs to one share that is stored.
THEOREM TypeCorrect == Spec => []TypeOK
<1>1. ShareInv => TypeOK
  BY DEF ShareInv
<1> QED
  BY <1>1, ShareInvariant, PTL

\* StartViewer, late heartbeats and cleanups never give a share more sessions than its limit.
THEOREM WithinLimitCorrect == Spec => []WithinLimit
<1>1. ShareInv => WithinLimit
  BY DEF ShareInv
<1> QED
  BY <1>1, ShareInvariant, PTL

\* Once revoked, a share never has a session.
THEOREM RevokedEmptyCorrect == Spec => []RevokedEmpty
<1>1. ShareInv => RevokedEmpty
  BY DEF ShareInv
<1> QED
  BY <1>1, ShareInvariant, PTL

\* A slot is held for at most IdleLimit and one period after the last sign of life, when
\* the ticker of cleanupLoop is on time.
THEOREM NoStaleSlotCorrect == Spec => []NoStaleSlot
<1>1. ShareInv => NoStaleSlot
  <2>1. SUFFICES ASSUME ShareInv, NEW s \in stored, NEW v \in sessions[s]
                 PROVE  idle[v] <= IdleLimit + SweepPeriod
    BY DEF NoStaleSlot
  <2>2. idle[v] <= IdleLimit + SweepPeriod - due /\ v \in ViewerIds
    BY <2>1 DEF ShareInv, SlotClock, TypeOK
  <2>3. idle[v] \in Int
    BY <2>1, <2>2, ShareAssumption DEF ShareInv, TypeOK
  <2>4. due \in 0..SweepPeriod
    BY <2>1 DEF ShareInv, TypeOK
  <2> QED
    BY <2>2, <2>3, <2>4, ShareAssumption
<1> QED
  BY <1>1, ShareInvariant, PTL

\* An expired share is in memory for at most one period.
THEOREM ForgottenInTimeCorrect == Spec => []ForgottenInTime
<1>1. ShareInv => ForgottenInTime
  BY ShareAssumption DEF ShareInv, ShareClock, ForgottenInTime, TypeOK
<1> QED
  BY <1>1, ShareInvariant, PTL

\* No place is lost without a reason: silence of more than IdleLimit, a closed page, a
\* revocation or the expiry of the share.
THEOREM SlotKeptCorrect == Spec => SlotKept
<1> DEFINE Kept == \A s \in Shares : \A v \in sessions[s] \ sessions'[s] :
                     idle[v] > IdleLimit \/ page'[v] = "closed" \/ s \in revoked' \/ Expired(s)
<1>1. ASSUME ShareInv, [Next]_vars PROVE Kept
  <2>1. SUFFICES ASSUME NEW s \in Shares, NEW v \in sessions[s] \ sessions'[s],
                        ~(idle[v] > IdleLimit), page'[v] # "closed", s \notin revoked', ~Expired(s)
                 PROVE  FALSE
    OBVIOUS
  <2>2. v \in ViewerIds /\ of[v] = s /\ v \in issued /\ s \in stored
    BY <1>1, <2>1 DEF ShareInv, TypeOK
  <2>3. idle[v] \in Int /\ IdleLimit \in Int
    BY <1>1, <2>2, ShareAssumption DEF ShareInv, TypeOK
  <2>4. v \in Fresh(s)
    BY <2>1, <2>3 DEF Fresh
  <2>5. sessions \in [Shares -> SUBSET issued] /\ page \in [ViewerIds -> {"none", "watching", "paused", "closed"}]
    BY <1>1 DEF ShareInv, TypeOK
  <2>6. CASE UNCHANGED vars
    BY <2>1, <2>6 DEF vars, table
  <2>7. ASSUME NEW t \in Shares, NEW S, SetSessions(t, S), t = s => v \in S PROVE FALSE
    BY <2>1, <2>5, <2>7 DEF SetSessions
  <2>8. ASSUME NEW t \in Shares, NEW minutes \in Minutes, NEW limit \in Limits,
               Create(t, minutes, limit)
        PROVE  FALSE
    BY <2>1, <2>8 DEF Create
  <2>9. ASSUME NEW t \in Shares, FindExpired(t) PROVE FALSE
    BY <2>1, <2>7, <2>9 DEF FindExpired
  <2>10. ASSUME NEW t \in Shares, CleanUp(t) PROVE FALSE
    BY <2>4, <2>7, <2>10 DEF CleanUp
  <2>11. ASSUME NEW t \in Shares, Revoke(t) PROVE FALSE
    BY <2>1, <2>7, <2>11 DEF Revoke
  <2>12. ASSUME NEW t \in Shares, NEW u \in ViewerIds, StartViewer(t, u) PROVE FALSE
    BY <2>4, <2>7, <2>12 DEF StartViewer
  <2>13. ASSUME NEW u \in ViewerIds, Heartbeat(u) PROVE FALSE
    <3>1. of[u] \in Shares
      BY <1>1 DEF ShareInv, TypeOK
    <3>2. CASE UNCHANGED table
      BY <2>1, <3>2 DEF table
    <3>3. CASE Expired(of[u]) /\ SetSessions(of[u], {})
      BY <2>1, <2>7, <3>1, <3>3
    <3> QED
      BY <2>13, <3>2, <3>3 DEF Heartbeat
  <2>14. ASSUME NEW u \in ViewerIds, HeartbeatLost(u) \/ Disconnect(u) PROVE FALSE
    BY <2>1, <2>14 DEF HeartbeatLost, Disconnect, table
  <2>15. ASSUME NEW u \in ViewerIds, ValidateAccessToken(u) PROVE FALSE
    <3>1. of[u] \in Shares
      BY <1>1 DEF ShareInv, TypeOK
    <3> QED
      BY <2>4, <2>7, <2>15, <3>1 DEF ValidateAccessToken
  <2>16. ASSUME NEW u \in ViewerIds, ClosePage(u) PROVE FALSE
    <3>1. of[u] \in Shares /\ page'[u] = "closed"
      BY <1>1, <2>5, <2>16 DEF ClosePage, ShareInv, TypeOK
    <3>2. CASE UNCHANGED table
      BY <2>1, <3>2 DEF table
    <3>3. CASE StopViewer(u)
      <4>1. of[u] = s => v \in sessions[of[u]] \ {u}
        BY <2>1, <3>1
      <4> QED
        BY <2>7, <3>1, <3>3, <4>1 DEF StopViewer
    <3> QED
      BY <2>16, <3>2, <3>3 DEF ClosePage
  <2>17. CASE Sweep
    <3>1. s \in stored \ SweepExpired
      BY <2>1, <2>2 DEF SweepExpired
    <3> QED
      BY <2>1, <2>4, <2>17, <3>1 DEF Sweep
  <2>18. CASE Tick
    BY <2>1, <2>18 DEF Tick
  <2> QED
    BY <1>1, <2>6, <2>8, <2>9, <2>10, <2>11, <2>12, <2>13, <2>14, <2>15, <2>16, <2>17, <2>18
    DEF Next
<1>2. ShareInv /\ [Next]_vars => [Kept]_vars
  BY <1>1
<1> QED
  BY <1>2, ShareInvariant, PTL DEF Spec, SlotKept
-----------------------------------------------------------------------------
(* The share table implements the lease of ShareLease, step by step.       *)

\* Replacing the sessions of a share by fewer is Leave.
LEMMA LeaseLeave ==
  ASSUME ShareInv, NEW s \in Shares, NEW S \in SUBSET sessions[s], SetSessions(s, S),
         UNCHANGED <<created, stored, revoked, max>>
  PROVE  Lease!LeaseNext
<1>1. UNCHANGED <<LeaseLife, max>> /\ sessions' = [sessions EXCEPT ![s] = S]
  BY DEF LeaseLife, SetSessions
<1>2. Lease!Leave(s)
  BY <1>1 DEF Lease!Leave
<1> QED
  BY <1>2 DEF Lease!LeaseNext

\* Deleting shares is Sweep.
LEMMA LeaseSweep ==
  ASSUME ShareInv, NEW S \in SUBSET stored, Forget(S), UNCHANGED <<created, max>>,
         \A s \in Shares : sessions'[s] \subseteq (IF s \in S THEN {} ELSE sessions[s]),
         sessions' \in [Shares -> SUBSET ViewerIds]
  PROVE  Lease!LeaseNext
<1>1. S \in SUBSET Shares /\ stored \subseteq created
  BY DEF ShareInv, TypeOK
<1>2. S \subseteq {s \in Shares : LeaseLife[s] \in {"open", "revoked"}}
  BY <1>1 DEF LeaseLife
<1>3. LeaseLife' = [s \in Shares |-> IF s \in S THEN "gone" ELSE LeaseLife[s]]
  BY <1>1 DEF LeaseLife, Forget
<1>4. Lease!Sweep(S)
  BY <1>2, <1>3 DEF Lease!Sweep
<1> QED
  BY <1>1, <1>4 DEF Lease!LeaseNext

LEMMA LeaseForget ==
  ASSUME ShareInv, NEW s \in stored, Forget({s}), SetSessions(s, {}), UNCHANGED <<created, max>>
  PROVE  Lease!LeaseNext
<1>1. s \in Shares /\ sessions' = [sessions EXCEPT ![s] = {}]
  BY DEF ShareInv, TypeOK, SetSessions
<1>2. /\ \A t \in Shares : sessions'[t] \subseteq (IF t \in {s} THEN {} ELSE sessions[t])
      /\ sessions' \in [Shares -> SUBSET ViewerIds]
  BY <1>1 DEF ShareInv, TypeOK
<1>3. {s} \in SUBSET stored
  OBVIOUS
<1> QED
  BY <1>2, <1>3, LeaseSweep

LEMMA LeaseStep == ShareInv /\ [Next]_vars => [Lease!LeaseNext]_(Lease!leaseVars)
<1> SUFFICES ASSUME ShareInv, [Next]_vars
             PROVE  Lease!LeaseNext \/ UNCHANGED <<LeaseLife, max, sessions>>
  BY DEF Lease!leaseVars
<1>0. ASSUME UNCHANGED <<created, stored, revoked, max, sessions>>
      PROVE  UNCHANGED <<LeaseLife, max, sessions>>
  BY <1>0 DEF LeaseLife
<1>1. CASE UNCHANGED vars
  BY <1>0, <1>1 DEF vars, table
<1>2. ASSUME NEW s \in Shares, NEW minutes \in Minutes, NEW limit \in Limits,
             Create(s, minutes, limit)
      PROVE  Lease!LeaseNext
  <2>1. EffectiveLimit(limit) \in 1..5
    BY ShareAssumption, EffectiveFacts
  <2>2. s \notin created /\ s \notin revoked
    BY <1>2 DEF Create, ShareInv, TypeOK
  <2>3. LeaseLife[s] = "new" /\ LeaseLife' = [LeaseLife EXCEPT ![s] = "open"]
    BY <1>2, <2>2 DEF LeaseLife, Create
  <2>4. Lease!Open(s)
    BY <1>2, <2>1, <2>3 DEF Lease!Open, Create
  <2> QED
    BY <2>4 DEF Lease!LeaseNext
<1>3. ASSUME NEW s \in Shares, FindExpired(s) PROVE Lease!LeaseNext
  BY <1>3, LeaseForget DEF FindExpired
<1>4. ASSUME NEW s \in Shares, CleanUp(s) PROVE Lease!LeaseNext
  <2>1. Fresh(s) \in SUBSET sessions[s]
    BY DEF Fresh
  <2> QED
    BY <1>4, <2>1, LeaseLeave DEF CleanUp
<1>5. ASSUME NEW s \in Shares, Revoke(s)
      PROVE  Lease!LeaseNext \/ UNCHANGED <<LeaseLife, max, sessions>>
  <2>1. /\ s \in stored /\ s \in created /\ revoked' = revoked \cup {s}
        /\ sessions' = [sessions EXCEPT ![s] = {}] /\ UNCHANGED <<created, stored, max>>
    BY <1>5 DEF Revoke, RevokedSessions, SetSessions, ShareInv, TypeOK
  <2>2. CASE s \in revoked
    <3>1. sessions' = sessions /\ revoked' = revoked
      BY <2>1, <2>2 DEF ShareInv, TypeOK, RevokedEmpty
    <3> QED
      BY <1>0, <2>1, <3>1
  <2>3. CASE s \notin revoked
    <3>1. LeaseLife[s] = "open" /\ LeaseLife' = [LeaseLife EXCEPT ![s] = "revoked"]
      BY <2>1, <2>3 DEF LeaseLife
    <3>2. Lease!Revoke(s)
      BY <2>1, <3>1 DEF Lease!Revoke
    <3> QED
      BY <3>2 DEF Lease!LeaseNext
  <2> QED
    BY <2>2, <2>3
<1>6. ASSUME NEW s \in Shares, NEW v \in ViewerIds, StartViewer(s, v) PROVE Lease!LeaseNext
  <2>1. Fresh(s) \in SUBSET sessions[s]
    BY DEF Fresh
  <2>2. CASE NoRoom(s)
    BY <1>6, <2>1, <2>2, LeaseLeave DEF StartViewer
  <2>3. CASE ~NoRoom(s)
    <3>1. /\ UNCHANGED <<LeaseLife, max>> /\ LeaseLife[s] = "open"
          /\ sessions' = [sessions EXCEPT ![s] = Fresh(s) \cup {v}]
      BY <1>6, <2>3 DEF StartViewer, Usable, LeaseLife, SetSessions, ShareInv, TypeOK
    <3>2. IsFiniteSet(sessions[s]) /\ max[s] \in Int
      BY DEF ShareInv, WithinLimit, TypeOK
    <3>3. Cardinality(Fresh(s)) \in Nat
      BY <2>1, <3>2, FS_Subset, FS_CardinalityType
    <3>4. Cardinality(Fresh(s)) < max[s]
      BY <2>3, <3>2, <3>3 DEF NoRoom
    <3>5. /\ Cardinality(Fresh(s)) < max[s]
          /\ sessions' = [sessions EXCEPT ![s] = Fresh(s) \cup {v}]
      BY <3>1, <3>4
    <3>6. \E rest \in SUBSET sessions[s] :
            /\ Cardinality(rest) < max[s]
            /\ sessions' = [sessions EXCEPT ![s] = rest \cup {v}]
      BY <2>1, <3>5, Zenon
    <3>7. \A S : Lease!Cardinality(S) = Cardinality(S)
      BY DEF Lease!Cardinality, Cardinality, Lease!IsFiniteSet, IsFiniteSet
    <3>8. Lease!Join(s, v)
      BY <3>1, <3>6, <3>7, Zenon DEF Lease!Join
    <3> QED
      BY <3>8 DEF Lease!LeaseNext
  <2> QED
    BY <2>2, <2>3
<1>7. ASSUME NEW v \in ViewerIds, Heartbeat(v)
      PROVE  Lease!LeaseNext \/ UNCHANGED <<LeaseLife, max, sessions>>
  <2>1. CASE UNCHANGED table
    BY <1>0, <2>1 DEF table
  <2>2. CASE /\ of[v] \in stored /\ Forget({of[v]}) /\ SetSessions(of[v], {})
             /\ UNCHANGED <<created, max>>
    BY <2>2, LeaseForget
  <2> QED
    BY <1>7, <2>1, <2>2 DEF Heartbeat
<1>8. ASSUME NEW v \in ViewerIds, HeartbeatLost(v) \/ Disconnect(v)
      PROVE  UNCHANGED <<LeaseLife, max, sessions>>
  BY <1>0, <1>8 DEF HeartbeatLost, Disconnect, table
<1>9. ASSUME NEW v \in ViewerIds, ValidateAccessToken(v) PROVE Lease!LeaseNext
  <2>1. of[v] \in Shares /\ Fresh(of[v]) \in SUBSET sessions[of[v]]
    BY DEF Fresh, ShareInv, TypeOK
  <2> QED
    BY <1>9, <2>1, LeaseLeave DEF ValidateAccessToken
<1>10. ASSUME NEW v \in ViewerIds, ClosePage(v)
       PROVE  Lease!LeaseNext \/ UNCHANGED <<LeaseLife, max, sessions>>
  <2>1. of[v] \in Shares /\ sessions[of[v]] \ {v} \in SUBSET sessions[of[v]]
    BY DEF ShareInv, TypeOK
  <2>2. CASE StopViewer(v)
    BY <2>1, <2>2, LeaseLeave DEF StopViewer
  <2>3. CASE UNCHANGED table
    BY <1>0, <2>3 DEF table
  <2> QED
    BY <1>10, <2>2, <2>3 DEF ClosePage
<1>11. CASE Sweep
  <2>1. /\ SweepExpired \in SUBSET stored /\ Forget(SweepExpired) /\ UNCHANGED <<created, max>>
        /\ sessions' = [s \in Shares |-> IF s \in stored \ SweepExpired THEN Fresh(s) ELSE {}]
    BY <1>11 DEF Sweep, SweepExpired
  <2>2. \A s \in Shares : Fresh(s) \in SUBSET sessions[s] /\ sessions[s] \in SUBSET ViewerIds
    BY DEF Fresh, ShareInv, TypeOK
  <2>3. /\ sessions' \in [Shares -> SUBSET ViewerIds]
        /\ \A s \in Shares : sessions'[s] \subseteq (IF s \in SweepExpired THEN {} ELSE sessions[s])
    BY <2>1, <2>2
  <2> QED
    BY <2>1, <2>3, LeaseSweep
<1>12. CASE Tick
  BY <1>0, <1>12 DEF Tick
<1> QED
  BY <1>1, <1>2, <1>3, <1>4, <1>5, <1>6, <1>7, <1>8, <1>9, <1>10, <1>11, <1>12 DEF Next

\* ShareManager keeps the promise of a lease: every call, and every round of the cleanup, is
\* a step of ShareLease or leaves the lease alone.
THEOREM LeaseCorrect == Spec => ImplementsLease
<1>1. Init => Lease!LeaseInit
  BY DEF Init, LeaseLife, Lease!LeaseInit
<1>2. ShareInv /\ [Next]_vars => [Lease!LeaseNext]_(Lease!leaseVars)
  BY LeaseStep
<1> QED
  BY <1>1, <1>2, ShareInvariant, PTL DEF Spec, ImplementsLease, Lease!LeaseSpec
=============================================================================
