------------------------- MODULE ConfigStoreProofs -------------------------
(* Theorems about ConfigStore: what was saved is kept, the program starts  *)
(* again with what it has, and one database is open, for any callers,      *)
(* events, streams, secrets and paths.                                     *)
EXTENDS ConfigStore, FiniteSetTheorems, FunctionTheorems, TLAPS

(* The inductive invariant.                                                *)

Values == BOOLEAN \cup Secrets \cup Paths \cup {Blank}
Partials == UNION {[S -> Values] : S \in SUBSET Items}
Jobs == [sets : SUBSET Items, to : Partials, read : SUBSET Items, data : Partials,
         path : SUBSET Paths, h : {0} \cup Handles]

Typed == TypeOK /\ job \in [Callers -> Jobs]

\* While the process is down nothing of it is left.
DownInv == ~up =>
  /\ \A c \in Callers : pc[c] = "idle"
  /\ DOMAIN open = {} /\ \A a \in Appenders : held[a] = 0

\* What a request has read is what there is, unless somebody changed it since.
ReadyInv == \A c \in Callers : pc[c] = "ready" =>
  /\ job[c].sets = {"secret"} /\ job[c].read = {"secret"}
  /\ job[c].to["secret"] \in Secrets
  /\ c \notin crossed => job[c].to["secret"] = conf["secret"]

\* One caller writes, and what it writes is what there is.
WriterInv == \A c \in Callers : pc[c] = "writing" =>
  /\ ~whole /\ job[c].data = conf
  /\ \A i \in job[c].sets : job[c].to[i] = conf[i]
  /\ \A d \in Callers : pc[d] = "writing" => d = c

\* The file has what there is in memory, is being written, or could not be.
FileInv == up /\ ~failed =>
  IF whole THEN conf \in Loaded(file) ELSE \E c \in Callers : pc[c] = "writing"

\* A promise is kept in memory, and also in the file, from which it will be loaded.
PromiseInv == PromisesHold /\ (whole => \A i \in Items : promise[i] \in {Unsure, file[i]})

\* Every open database is the current one or some request's, and never two requests'.
HasHandle(c) == pc[c] \in {"opened", "closing"}
OpenInv ==
  /\ up => cur \in DOMAIN open
  /\ \A c \in Callers : HasHandle(c) => job[c].h \in DOMAIN open \ {cur}
  /\ \A c, d \in Callers : HasHandle(c) /\ HasHandle(d) /\ job[c].h = job[d].h => c = d
  /\ \A h \in DOMAIN open : h = cur \/ \E c \in Callers : HasHandle(c) /\ h = job[c].h

\* Who has read the path that is still configured, opens it and publishes it.
PathInv ==
  /\ \A c \in Callers : pc[c] = "opening" => \E p \in Paths : job[c].path = {p}
  /\ \A c \in fresh :
       \/ pc[c] = "opening" /\ job[c].path = {conf["db"]}
       \/ pc[c] = "opened" /\ open[job[c].h] = conf["db"]
  /\ up /\ ~doubt => open[cur] = conf["db"]

HeldInv == \A a \in Appenders : held[a] # 0 /\ a \notin across => held[a] = cur
Inv ==
  /\ Typed /\ DownInv
  /\ ReadyInv /\ WriterInv /\ FileInv /\ PromiseInv
  /\ OpenInv /\ PathInv /\ HeldInv
-----------------------------------------------------------------------------
(* What the contents are.                                                  *)

LEMMA Bounds == ConfigAssumption
  BY ConfigAssumption DEF ConfigAssumption

LEMMA ItemFacts ==
  /\ "secret" \in Items /\ "db" \in Items /\ "secret" # "db"
  /\ Of("secret") = Secrets /\ Of("db") = Paths
  /\ \A s \in Streams : s \in Items /\ s # "secret" /\ s # "db" /\ Of(s) = BOOLEAN
  /\ \A i \in Items : Of(i) \subseteq Values \ {Blank} /\ Unsure \notin Of(i) /\ Blank \notin Of(i)
<1>1. "secret" \notin Streams /\ "db" \notin Streams
  BY Bounds DEF ConfigAssumption
<1>2. "secret" # "db"
  OBVIOUS
<1>3. Of("secret") = Secrets
  BY <1>1 DEF Of
<1>4. Of("db") = Paths
  BY <1>1, <1>2 DEF Of
<1>5. \A s \in Streams : s # "secret" /\ s # "db" /\ Of(s) = BOOLEAN
  BY <1>1 DEF Of
<1>6. /\ Blank \notin Secrets /\ Blank \notin Paths /\ Blank \notin BOOLEAN
      /\ Unsure \notin Secrets /\ Unsure \notin Paths /\ Unsure \notin BOOLEAN
  BY Bounds DEF ConfigAssumption, Paths
<1>7. \A i \in Items : Of(i) \in {BOOLEAN, Secrets, Paths}
  BY <1>3, <1>4, <1>5 DEF Items
<1>8. \A i \in Items : Of(i) \subseteq Values \ {Blank} /\ Unsure \notin Of(i) /\ Blank \notin Of(i)
  BY <1>6, <1>7 DEF Values
<1> QED
  BY <1>2, <1>3, <1>4, <1>5, <1>8 DEF Items

LEMMA ContentsFacts ==
  /\ \A k \in Contents : k = [i \in Items |-> k[i]] /\ \A i \in Items : k[i] \in Of(i)
  /\ \A k : k = [i \in Items |-> k[i]] /\ (\A i \in Items : k[i] \in Of(i)) => k \in Contents
  /\ Contents \subseteq Files
<1>1. \A i \in Items : Of(i) \subseteq BOOLEAN \cup Secrets \cup Paths
  BY ItemFacts DEF Values
<1> QED
  BY <1>1 DEF Contents, Files

\* A file may lack its secret and nothing else.
LEMMA FileFacts ==
  ASSUME NEW k \in Files
  PROVE  /\ k["db"] \in Paths
         /\ \A i \in Items : k[i] \in Of(i) \/ (i = "secret" /\ k[i] = Blank)
         /\ \A i \in Items : k[i] \in Of(i) => k[i] # Blank
<1>1. k["db"] \in Paths /\ \A i \in Items : k[i] \in Of(i) \/ (i = "secret" /\ k[i] = Blank)
  <2>1. CASE k \in Contents
    BY <2>1, ItemFacts, ContentsFacts
  <2>2. ASSUME NEW l \in Contents, k = [l EXCEPT !["secret"] = Blank]
        PROVE  k["db"] \in Paths /\ \A i \in Items : k[i] \in Of(i) \/ (i = "secret" /\ k[i] = Blank)
    BY <2>2, ItemFacts, ContentsFacts
  <2> QED
    BY <2>1, <2>2 DEF Files
<1> QED
  BY <1>1, ItemFacts

LEMMA LoadedFacts ==
  ASSUME NEW k \in Files, NEW l \in Loaded(k)
  PROVE  /\ l \in Contents /\ l["db"] = k["db"]
         /\ \A i \in Items : l[i] \in Of(i) /\ (k[i] = l[i] \/ k[i] = Blank)
<1>1. l \in Contents /\ \A i \in Items : k[i] = l[i] \/ k[i] = Blank
  BY DEF Loaded
<1> QED
  BY <1>1, ItemFacts, ContentsFacts, FileFacts

LEMMA LoadedSelf == \A k \in Contents : k \in Loaded(k)
  BY DEF Loaded
-----------------------------------------------------------------------------
(* There is always a handle that nobody has.                               *)

LEMMA ImageBound ==
  ASSUME NEW S, IsFiniteSet(S), NEW f, DOMAIN f = S
  PROVE  /\ IsFiniteSet({f[x] : x \in S})
         /\ Cardinality({f[x] : x \in S}) <= Cardinality(S)
<1> DEFINE T == {f[x] : x \in S}
           g == [x \in S |-> f[x]]
<1>1. g \in [S -> T] /\ \A t \in T : \E s \in S : g[s] = t
  OBVIOUS
<1>2. g \in Surjection(S, T)
  <2> HIDE DEF g, T
  <2> QED
    BY <1>1, Fun_IsSurj
<1> HIDE DEF g, T
<1>3. IsFiniteSet(T) /\ Cardinality(T) <= Cardinality(S)
  BY <1>2, FS_Surjection
<1> QED
  BY <1>3 DEF T

LEMMA UnusedHandle ==
  ASSUME Typed, OpenInv, NEW c \in Callers
  PROVE  /\ (CHOOSE x \in Unused : TRUE) \in Handles
         /\ (CHOOSE x \in Unused : TRUE) \notin DOMAIN open
         /\ \A a \in Appenders : held[a] # (CHOOSE x \in Unused : TRUE)
<1> DEFINE J == [x \in Callers |-> job[x].h]
           A == {J[x] : x \in Callers}
           B == {held[a] : a \in Appenders}
           N == Cardinality(Callers)
           M == Cardinality(Appenders)
<1>1. IsFiniteSet(Callers) /\ IsFiniteSet(Appenders) /\ N \in Nat /\ M \in Nat
  BY Bounds, FS_CardinalityType DEF ConfigAssumption
<1>2. N >= 1
  BY <1>1, FS_EmptySet
<1>3. IsFiniteSet(A) /\ Cardinality(A) <= N /\ Cardinality(A) \in Nat
  <2>1. IsFiniteSet(Callers) /\ DOMAIN J = Callers
    BY <1>1
  <2> HIDE DEF J
  <2> QED
    BY <2>1, ImageBound, FS_CardinalityType
<1>4. IsFiniteSet(B) /\ Cardinality(B) <= M /\ Cardinality(B) \in Nat
  <2>1. DOMAIN held = Appenders
    BY DEF Typed, TypeOK
  <2> QED
    BY <1>1, <2>1, ImageBound, FS_CardinalityType
<1>5. DOMAIN open \subseteq A \cup {cur}
  BY DEF OpenInv
<1> HIDE DEF A, B, N, M
<1>6. IsFiniteSet(A \cup B) /\ Cardinality(A \cup B) <= N + M /\ Cardinality(A \cup B) \in Nat
  <2>1. /\ IsFiniteSet(A \cup B)
        /\ Cardinality(A \cup B) = Cardinality(A) + Cardinality(B) - Cardinality(A \cap B)
    BY <1>3, <1>4, FS_Union
  <2>2. IsFiniteSet(A \cap B) /\ Cardinality(A \cap B) \in Nat
    BY <1>3, FS_Intersection, FS_CardinalityType
  <2> QED
    BY <1>1, <1>3, <1>4, <2>1, <2>2, FS_CardinalityType
<1> DEFINE U == (A \cup B) \cup {cur}
<1>7. IsFiniteSet(U) /\ Cardinality(U) <= N + M + 1 /\ Cardinality(U) \in Nat
  <2> DEFINE V == A \cup B
  <2> HIDE DEF V
  <2>1. IsFiniteSet(V) /\ Cardinality(V) <= N + M /\ Cardinality(V) \in Nat
    BY <1>6 DEF V
  <2>2. /\ IsFiniteSet(V \cup {cur})
        /\ Cardinality(V \cup {cur}) = IF cur \in V THEN Cardinality(V) ELSE Cardinality(V) + 1
    BY <2>1, FS_AddElement
  <2>3. Cardinality(V \cup {cur}) <= N + M + 1 /\ Cardinality(V \cup {cur}) \in Nat
    BY <1>1, <2>1, <2>2
  <2> QED
    BY <2>2, <2>3 DEF V
<1>8. IsFiniteSet(Handles) /\ Cardinality(Handles) = 2 * N + M + 1
  <2>1. Handles = 1..(2 * N + M + 1) /\ 2 * N + M + 1 \in Nat
    BY <1>1 DEF Handles, N, M
  <2>2. /\ IsFiniteSet(1..(2 * N + M + 1))
        /\ Cardinality(1..(2 * N + M + 1)) = IF 1 > 2 * N + M + 1 THEN 0 ELSE (2 * N + M + 1) - 1 + 1
    BY <2>1, FS_Interval
  <2> QED
    BY <1>1, <2>1, <2>2
<1> HIDE DEF U
<1>9. ~(Handles \subseteq U)
  <2>1. SUFFICES ASSUME Handles \subseteq U PROVE FALSE
    OBVIOUS
  <2>2. Cardinality(Handles) <= Cardinality(U)
    BY <1>7, <2>1, FS_Subset
  <2> QED
    BY <1>1, <1>2, <1>7, <1>8, <2>2
<1>10. PICK x \in Handles : x \notin U
  BY <1>9
<1>11. x \in Unused
  BY <1>5, <1>10 DEF Unused, U, B
<1>12. (CHOOSE y \in Unused : TRUE) \in Unused
  BY <1>11
<1> QED
  BY <1>12 DEF Unused
-----------------------------------------------------------------------------
(* Requests.                                                               *)

LEMMA PartialFacts ==
  ASSUME NEW S \in SUBSET Items, NEW f \in [S -> Values]
  PROVE  f \in Partials
  BY DEF Partials

LEMMA NoJobFacts == NoJob \in Jobs
<1>1. None \in [{} -> Values] /\ {} \in SUBSET Items
  BY DEF None
<1>2. None \in Partials
  BY <1>1, PartialFacts
<1> QED
  BY <1>2 DEF NoJob, Jobs

\* What a request that sets one item looks like.
Setting(i, v, R) == [sets |-> {i}, to |-> [x \in {i} |-> v], read |-> R,
                     data |-> None, path |-> {}, h |-> 0]

LEMMA SettingFacts ==
  ASSUME NEW i \in Items, NEW v \in Of(i), NEW R \in SUBSET {i}
  PROVE  /\ Setting(i, v, R) \in Jobs
         /\ Setting(i, v, R).sets = {i} /\ Setting(i, v, R).to[i] = v
         /\ Setting(i, v, R).read = R
<1>1. {i} \in SUBSET Items /\ R \in SUBSET Items
  OBVIOUS
<1>2. [x \in {i} |-> v] \in [{i} -> Values]
  BY ItemFacts
<1>3. [x \in {i} |-> v] \in Partials
  BY <1>1, <1>2, PartialFacts
<1>4. None \in Partials
  BY NoJobFacts DEF Jobs, NoJob
<1> QED
  BY <1>1, <1>3, <1>4 DEF Jobs, Setting

LEMMA SettingIsSent ==
  ASSUME NEW i, NEW v, NEW j, j = [NoJob EXCEPT !.sets = {i}, !.to = [x \in {i} |-> v]]
  PROVE  j = Setting(i, v, {})
  BY DEF NoJob, Setting

LEMMA SettingIsRead ==
  ASSUME NEW i, NEW v, NEW R,
         NEW j, j = [NoJob EXCEPT !.sets = {i}, !.to = [x \in {i} |-> v], !.read = R]
  PROVE  j = Setting(i, v, R)
  BY DEF NoJob, Setting

\* A request's change and the beginning of its save.
LEMMA SaveBegins ==
  ASSUME Inv, up, NEW c \in Callers, NEW j \in Jobs, pc[c] \in {"idle", "ready"},
         \A i \in j.sets : j.to[i] \in Of(i),
         \A i \in j.sets \ Changes(c, j) : j.to[i] = conf[i],
         ChangeAndSave(c, j), UNCHANGED <<up, events, held, across>>
  PROVE  Inv'
<1> DEFINE changed == Changes(c, j)
<1>1. /\ TypeOK /\ job \in [Callers -> Jobs]
      /\ conf \in Contents /\ j.sets \in SUBSET Items /\ changed \subseteq j.sets
  BY DEF Inv, Typed, TypeOK, Jobs, Changes
<1>2. /\ ~Locked /\ conf' = With(j)
      /\ promise' = [i \in Items |-> IF i \in changed THEN Unsure ELSE promise[i]]
      /\ crossed' = (crossed \cup {d \in Callers \ {c} : pc[d] = "ready" /\ job[d].read \cap changed # {}}) \ {c}
      /\ IF "db" \in j.sets THEN doubt' = TRUE /\ fresh' = {} ELSE UNCHANGED <<doubt, fresh>>
      /\ UNCHANGED <<up, open, cur, held, across>>
  BY DEF ChangeAndSave, events
<1>3. /\ conf' \in Contents /\ conf' \in [Items -> Values]
      /\ \A i \in j.sets : conf'[i] = j.to[i]
      /\ \A i \in Items \ changed : conf'[i] = conf[i]
  <2>1. conf' = [i \in Items |-> IF i \in j.sets THEN j.to[i] ELSE conf[i]]
    BY <1>2 DEF With
  <2>2. \A i \in Items : conf'[i] \in Of(i)
    BY <1>1, <2>1, ContentsFacts
  <2>3. conf' = [i \in Items |-> conf'[i]]
    BY <2>1
  <2> QED
    BY <1>1, <2>1, <2>2, <2>3, ContentsFacts, ItemFacts
<1>4. \A d \in Callers : pc[d] # "writing"
  BY <1>2 DEF Locked, MutexTaken
<1>5. /\ pc' \in [Callers -> {"idle", "ready", "writing", "saved", "opening", "opened", "closing"}]
      /\ job' \in [Callers -> Jobs]
      /\ \A d \in Callers \ {c} : pc'[d] = pc[d] /\ job'[d] = job[d]
      /\ \/ /\ pc'[c] = "idle" /\ job'[c] = NoJob
            /\ failed' = TRUE /\ UNCHANGED <<whole, file>>
         \/ /\ pc'[c] = "writing"
            /\ job'[c].sets = j.sets /\ job'[c].to = j.to /\ job'[c].data = conf'
            /\ job'[c].read = j.sets \ changed
            /\ whole' = FALSE /\ UNCHANGED <<file, failed>>
  <2>1. pc \in [Callers -> {"idle", "ready", "writing", "saved", "opening", "opened", "closing"}]
    BY <1>1 DEF TypeOK
  <2>2. CASE /\ pc' = [pc EXCEPT ![c] = "idle"]
             /\ job' = [job EXCEPT ![c] = NoJob]
             /\ failed' = TRUE /\ UNCHANGED <<whole, file>>
    BY <1>1, <2>1, <2>2, NoJobFacts
  <2>3. CASE /\ pc' = [pc EXCEPT ![c] = "writing"]
             /\ job' = [job EXCEPT ![c] = [j EXCEPT !.data = Data(j), !.read = j.sets \ changed]]
             /\ whole' = FALSE /\ UNCHANGED <<file, failed>>
    <3> DEFINE n == [j EXCEPT !.data = Data(j), !.read = j.sets \ changed]
    <3>1. Data(j) = conf' /\ conf' \in Partials
      BY <1>2, <1>3, PartialFacts DEF Data, Marshal
    <3>2. j.sets \ changed \in SUBSET Items
      BY <1>1
    <3>3. /\ n \in Jobs /\ n.sets = j.sets /\ n.to = j.to /\ n.data = conf'
          /\ n.read = j.sets \ changed
      BY <3>1, <3>2 DEF Jobs
    <3> HIDE DEF n
    <3>4. pc' = [pc EXCEPT ![c] = "writing"] /\ job' = [job EXCEPT ![c] = n]
      BY <2>3 DEF n
    <3> QED
      BY <1>1, <2>1, <2>3, <3>3, <3>4
  <2> QED
    BY <2>2, <2>3 DEF ChangeAndSave
<1> HIDE DEF changed
<1>6. Typed'
  <2>1. \A d \in Callers :
          /\ job'[d].sets \subseteq Items /\ job'[d].read \subseteq job'[d].sets
          /\ pc'[d] = "idle" => job'[d] = NoJob
          /\ pc'[d] \in {"opened", "closing"} => job'[d].h \in Handles
    <3>1. ASSUME NEW d \in Callers \ {c}
          PROVE  /\ job[d].sets \subseteq Items /\ job[d].read \subseteq job[d].sets
                 /\ pc[d] = "idle" => job[d] = NoJob
                 /\ pc[d] \in {"opened", "closing"} => job[d].h \in Handles
      BY <1>1 DEF TypeOK
    <3>2. NoJob.sets = {} /\ NoJob.read = {}
      BY DEF NoJob
    <3> QED
      BY <1>1, <1>5, <3>1, <3>2
  <2>2. whole' \in BOOLEAN /\ failed' \in BOOLEAN /\ file' \in Files
    BY <1>1, <1>5 DEF TypeOK
  <2>3. crossed' \subseteq Callers /\ fresh' \subseteq Callers /\ doubt' \in BOOLEAN
    BY <1>1, <1>2 DEF TypeOK
  <2>4. \A i \in Items : promise'[i] \in {Unsure} \cup Of(i)
    BY <1>1, <1>2 DEF TypeOK
  <2>5. /\ up' \in BOOLEAN
        /\ DOMAIN open' \subseteq Handles /\ \A h \in DOMAIN open' : open'[h] \in GoodPaths
        /\ cur' \in {0} \cup Handles /\ held' \in [Appenders -> {0} \cup Handles]
        /\ across' \subseteq Appenders
    BY <1>1, <1>2 DEF TypeOK
  <2> QED
    BY <1>3, <1>5, <2>1, <2>2, <2>3, <2>4, <2>5 DEF Typed, TypeOK
<1>7. \A d \in Callers : pc'[d] \notin {"idle", "writing"} =>
        d # c /\ pc'[d] = pc[d] /\ job'[d] = job[d]
  BY <1>5
<1>8. \A d \in Callers : HasHandle(d) <=> HasHandle(d)'
  BY <1>5 DEF HasHandle
<1>9. DownInv'
  BY <1>2 DEF DownInv
<1>10. ReadyInv'
  <2>1. ASSUME NEW d \in Callers, pc'[d] = "ready"
        PROVE  /\ job'[d].sets = {"secret"} /\ job'[d].read = {"secret"}
               /\ job'[d].to["secret"] \in Secrets
               /\ d \notin crossed' => job'[d].to["secret"] = conf'["secret"]
    <3>1. d # c /\ pc[d] = "ready" /\ job'[d] = job[d]
      BY <1>7, <2>1
    <3>2. /\ job[d].sets = {"secret"} /\ job[d].read = {"secret"}
          /\ job[d].to["secret"] \in Secrets
          /\ d \notin crossed => job[d].to["secret"] = conf["secret"]
      BY <3>1 DEF Inv, ReadyInv
    <3>3. d \notin crossed' => d \notin crossed /\ "secret" \notin changed
      BY <1>2, <3>1, <3>2
    <3> QED
      BY <1>3, <3>1, <3>2, <3>3, ItemFacts
  <2> QED
    BY <2>1 DEF ReadyInv
<1>11. WriterInv'
  <2>1. \A d \in Callers : pc'[d] = "writing" => d = c
    BY <1>4, <1>5
  <2>2. pc'[c] = "writing" =>
          /\ ~whole' /\ job'[c].data = conf'
          /\ \A i \in job'[c].sets : job'[c].to[i] = conf'[i]
    BY <1>3, <1>5
  <2> QED
    BY <2>1, <2>2 DEF WriterInv
<1>12. FileInv'
  BY <1>5 DEF FileInv
<1>13. PromiseInv'
  <2>1. \A i \in Items : promise[i] \in {Unsure, conf[i]}
    BY <1>1 DEF Inv, PromiseInv, PromisesHold
  <2>2. \A i \in Items : promise'[i] \in {Unsure, conf'[i]}
    BY <1>2, <1>3, <2>1
  <2>3. whole' => whole /\ file' = file
    BY <1>5
  <2>4. whole' => \A i \in Items : promise'[i] \in {Unsure, file'[i]}
    BY <1>2, <2>3 DEF Inv, PromiseInv
  <2> QED
    BY <2>2, <2>4 DEF PromiseInv, PromisesHold
<1>14. OpenInv'
  <2>1. OpenInv /\ UNCHANGED <<up, open, cur>>
    BY <1>2 DEF Inv
  <2>2. \A d \in Callers : HasHandle(d) => job'[d] = job[d]
    BY <1>7, <1>8 DEF HasHandle
  <2> QED
    BY <1>8, <2>1, <2>2 DEF OpenInv
<1>15. PathInv'
  <2>1. \A d \in Callers : pc'[d] = "opening" => \E p \in Paths : job'[d].path = {p}
    BY <1>7 DEF Inv, PathInv
  <2>2. CASE "db" \in j.sets
    BY <1>2, <2>1, <2>2 DEF PathInv
  <2>3. CASE "db" \notin j.sets
    <3>1. conf'["db"] = conf["db"] /\ UNCHANGED <<up, open, cur, doubt, fresh>>
      BY <1>1, <1>2, <1>3, <2>3, ItemFacts DEF changed
    <3>2. ASSUME NEW d \in fresh
          PROVE  \/ pc'[d] = "opening" /\ job'[d].path = {conf'["db"]}
                 \/ pc'[d] = "opened" /\ open'[job'[d].h] = conf'["db"]
      <4>1. /\ d \in Callers
            /\ \/ pc[d] = "opening" /\ job[d].path = {conf["db"]}
               \/ pc[d] = "opened" /\ open[job[d].h] = conf["db"]
        BY <1>1 DEF Inv, PathInv, TypeOK
      <4>2. pc'[d] = pc[d] /\ job'[d] = job[d]
        BY <1>5, <4>1
      <4> QED
        BY <3>1, <4>1, <4>2
    <3> QED
      BY <2>1, <3>1, <3>2 DEF Inv, PathInv
  <2> QED
    BY <2>2, <2>3
<1>16. HeldInv'
  BY <1>2 DEF Inv, HeldInv
<1> QED
  BY <1>6, <1>9, <1>10, <1>11, <1>12, <1>13, <1>14, <1>15, <1>16 DEF Inv

\* A request that sends the item it sets.
LEMMA SendsItem ==
  ASSUME Inv, up, NEW c \in Callers, pc[c] = "idle", NEW i \in Items, NEW v \in Of(i),
         ChangeAndSave(c, [NoJob EXCEPT !.sets = {i}, !.to = [x \in {i} |-> v]]),
         UNCHANGED <<up, events, held, across>>
  PROVE  Inv'
<1> DEFINE j == Setting(i, v, {})
<1>1. {} \in SUBSET {i}
  OBVIOUS
<1>s. PICK n : n = [NoJob EXCEPT !.sets = {i}, !.to = [x \in {i} |-> v]]
  OBVIOUS
<1>2. j \in Jobs /\ j.sets = {i} /\ j.to[i] = v /\ j.read = {}
  BY <1>1, SettingFacts
<1>3. ChangeAndSave(c, j)
  BY <1>s, SettingIsSent
<1> HIDE DEF j
<1>4. Changes(c, j) = j.sets
  BY <1>2 DEF Changes
<1> QED
  BY <1>2, <1>3, <1>4, SaveBegins

LEMMA InvUpdate == ASSUME Inv, NEW c \in Callers, Update(c) PROVE Inv'
<1>1. /\ pc[c] = "ready" /\ ChangeAndSave(c, job[c])
      /\ UNCHANGED <<up, events, held, across>>
  BY DEF Update
<1>2. up
  BY <1>1 DEF Inv, DownInv
<1>3. /\ job[c] \in Jobs /\ job[c].sets = {"secret"} /\ job[c].read = {"secret"}
      /\ job[c].to["secret"] \in Secrets
      /\ c \notin crossed => job[c].to["secret"] = conf["secret"]
  BY <1>1 DEF Inv, Typed, ReadyInv
<1>4. \A i \in job[c].sets : job[c].to[i] \in Of(i)
  BY <1>3, ItemFacts
<1>5. \A i \in job[c].sets \ Changes(c, job[c]) : job[c].to[i] = conf[i]
  BY <1>3 DEF Changes
<1> QED
  BY <1>1, <1>2, <1>3, <1>4, <1>5, SaveBegins

LEMMA InvLeaveSecret == ASSUME Inv, NEW c \in Callers, LeaveSecret(c) PROVE Inv'
<1> DEFINE j == Setting("secret", conf["secret"], {"secret"})
<1>1. /\ up /\ pc[c] = "idle" /\ ~Locked
      /\ pc' = [pc EXCEPT ![c] = "ready"]
      /\ UNCHANGED <<up, conf, whole, file, open, cur, held, across, promise, crossed, failed, fresh, doubt>>
  BY DEF LeaveSecret, store, events, history
<1>2. job' = [job EXCEPT ![c] = j]
  <2>1. PICK n : n = [NoJob EXCEPT
       !.sets = {"secret"}, !.to = [i \in {"secret"} |-> Filled], !.read = {"secret"}]
    OBVIOUS
  <2>2. job' = [job EXCEPT ![c] = n]
    BY <2>1 DEF LeaveSecret
  <2>3. n = Setting("secret", Filled, {"secret"})
    BY <2>1, SettingIsRead
  <2> QED
    BY <2>2, <2>3 DEF Filled, Refill
<1>3. /\ TypeOK /\ job \in [Callers -> Jobs]
      /\ pc \in [Callers -> {"idle", "ready", "writing", "saved", "opening", "opened", "closing"}]
      /\ conf["secret"] \in Secrets
  BY <1>1, ItemFacts, ContentsFacts DEF Inv, Typed, TypeOK
<1>4. j \in Jobs /\ j.sets = {"secret"} /\ j.to["secret"] = conf["secret"] /\ j.read = {"secret"}
  <2>1. {"secret"} \in SUBSET {"secret"}
    OBVIOUS
  <2> QED
    BY <1>3, <2>1, ItemFacts, SettingFacts
<1> HIDE DEF j
<1>5. /\ \A d \in Callers \ {c} : pc'[d] = pc[d] /\ job'[d] = job[d]
      /\ pc'[c] = "ready" /\ job'[c] = j
      /\ job' \in [Callers -> Jobs]
      /\ pc' \in [Callers -> {"idle", "ready", "writing", "saved", "opening", "opened", "closing"}]
  BY <1>1, <1>2, <1>3, <1>4
<1>6. \A d \in Callers : HasHandle(d) <=> HasHandle(d)'
  BY <1>1, <1>5 DEF HasHandle
<1>7. \A d \in Callers : pc'[d] # "ready" => pc'[d] = pc[d] /\ job'[d] = job[d]
  BY <1>5
<1>8. Typed'
  <2>1. \A d \in Callers :
          /\ job'[d].sets \subseteq Items /\ job'[d].read \subseteq job'[d].sets
          /\ pc'[d] = "idle" => job'[d] = NoJob
          /\ pc'[d] \in {"opened", "closing"} => job'[d].h \in Handles
    BY <1>3, <1>4, <1>5, ItemFacts DEF TypeOK
  <2> QED
    BY <1>1, <1>3, <1>5, <2>1 DEF Typed, TypeOK
<1>9. DownInv'
  BY <1>1 DEF DownInv
<1>10. ReadyInv'
  BY <1>1, <1>3, <1>4, <1>5 DEF Inv, ReadyInv
<1>11. WriterInv'
  BY <1>1, <1>7 DEF Inv, WriterInv
<1>12. FileInv'
  BY <1>1, <1>5 DEF Inv, FileInv, Loaded
<1>13. PromiseInv'
  BY <1>1 DEF Inv, PromiseInv, PromisesHold
<1>14. OpenInv'
  BY <1>1, <1>6, <1>7 DEF Inv, OpenInv, HasHandle
<1>15. PathInv'
  BY <1>1, <1>3, <1>5, <1>7 DEF Inv, PathInv, TypeOK
<1>16. HeldInv'
  BY <1>1 DEF Inv, HeldInv
<1> QED
  BY <1>8, <1>9, <1>10, <1>11, <1>12, <1>13, <1>14, <1>15, <1>16 DEF Inv

-----------------------------------------------------------------------------
(* The other steps of a request.                                           *)

Places == {"idle", "ready", "writing", "saved", "opening", "opened", "closing"}

\* One caller moves on, with another job.
LEMMA Moves ==
  ASSUME Inv, NEW c \in Callers, NEW q \in Places, pc' = [pc EXCEPT ![c] = q],
         NEW n \in Jobs, job' = [job EXCEPT ![c] = n],
         n.sets \subseteq Items, n.read \subseteq n.sets, q = "idle" => n = NoJob,
         q \in {"opened", "closing"} => n.h \in Handles
  PROVE  /\ \A d \in Callers \ {c} : pc'[d] = pc[d] /\ job'[d] = job[d]
         /\ pc'[c] = q /\ job'[c] = n
         /\ pc' \in [Callers -> Places] /\ job' \in [Callers -> Jobs]
         /\ \A d \in Callers :
              /\ job'[d].sets \subseteq Items /\ job'[d].read \subseteq job'[d].sets
              /\ pc'[d] = "idle" => job'[d] = NoJob
              /\ pc'[d] \in {"opened", "closing"} => job'[d].h \in Handles
<1>1. pc \in [Callers -> Places] /\ job \in [Callers -> Jobs]
  BY DEF Inv, Typed, TypeOK, Places
<1>2. \A d \in Callers :
              /\ job[d].sets \subseteq Items /\ job[d].read \subseteq job[d].sets
              /\ pc[d] = "idle" => job[d] = NoJob
              /\ pc[d] \in {"opened", "closing"} => job[d].h \in Handles
  BY DEF Inv, Typed, TypeOK
<1>3. /\ \A d \in Callers \ {c} : pc'[d] = pc[d] /\ job'[d] = job[d]
      /\ pc'[c] = q /\ job'[c] = n
      /\ pc' \in [Callers -> Places] /\ job' \in [Callers -> Jobs]
  BY <1>1
<1> QED
  BY <1>2, <1>3

LEMMA EmptyJob ==
  ASSUME NEW P \in SUBSET Paths, NEW h \in {0} \cup Handles
  PROVE  [sets |-> {}, to |-> None, read |-> {}, data |-> None, path |-> P, h |-> h] \in Jobs
<1>1. None \in Partials
  BY NoJobFacts DEF Jobs, NoJob
<1>2. {} \in SUBSET Items
  OBVIOUS
<1> QED
  BY <1>1, <1>2 DEF Jobs

\* A job in which only the path, or only the handle, is set.
LEMMA PathJob ==
  ASSUME NEW P \in SUBSET Paths, NEW n, n = [NoJob EXCEPT !.path = P]
  PROVE  n \in Jobs /\ n.sets = {} /\ n.read = {} /\ n.path = P
<1> DEFINE r == [sets |-> {}, to |-> None, read |-> {}, data |-> None, path |-> P, h |-> 0]
<1>1. n = r
  BY DEF NoJob
<1>2. 0 \in {0} \cup Handles
  OBVIOUS
<1>3. r \in Jobs
  BY <1>2, EmptyJob
<1>4. r.sets = {} /\ r.read = {} /\ r.path = P /\ r.h = 0
  OBVIOUS
<1> HIDE DEF r
<1> QED
  BY <1>1, <1>3, <1>4

LEMMA HandleJob ==
  ASSUME NEW h \in {0} \cup Handles, NEW n, n = [NoJob EXCEPT !.h = h]
  PROVE  n \in Jobs /\ n.sets = {} /\ n.read = {} /\ n.h = h
<1> DEFINE r == [sets |-> {}, to |-> None, read |-> {}, data |-> None, path |-> {}, h |-> h]
<1>1. n = r
  BY DEF NoJob
<1>2. {} \in SUBSET Paths
  OBVIOUS
<1>3. r \in Jobs
  BY <1>2, EmptyJob
<1>4. r.sets = {} /\ r.read = {} /\ r.path = {} /\ r.h = h
  OBVIOUS
<1> HIDE DEF r
<1> QED
  BY <1>1, <1>3, <1>4

\* A save ends: c wrote, and the mutex is free.  The databases are left alone.
LEMMA SaveEnds ==
  ASSUME Inv, NEW c \in Callers, pc[c] = "writing",
         NEW q \in {"idle", "saved"}, pc' = [pc EXCEPT ![c] = q],
         NEW n \in Jobs, job' = [job EXCEPT ![c] = n],
         n.sets \subseteq Items, n.read \subseteq n.sets, q = "idle" => n = NoJob,
         UNCHANGED <<up, conf, events, held, across, crossed, fresh, doubt>>,
         whole' \in BOOLEAN, file' \in Files, failed' \in BOOLEAN,
         \A i \in Items : promise'[i] \in {Unsure} \cup Of(i)
  PROVE  Typed' /\ DownInv' /\ ReadyInv' /\ WriterInv' /\ OpenInv' /\ PathInv' /\ HeldInv'
<1>1. q \in Places /\ q \notin {"opened", "closing", "opening", "ready", "writing"}
  BY DEF Places
<1>2. /\ \A d \in Callers \ {c} : pc'[d] = pc[d] /\ job'[d] = job[d]
      /\ pc'[c] = q /\ job'[c] = n
      /\ pc' \in [Callers -> Places] /\ job' \in [Callers -> Jobs]
      /\ \A d \in Callers :
           /\ job'[d].sets \subseteq Items /\ job'[d].read \subseteq job'[d].sets
           /\ pc'[d] = "idle" => job'[d] = NoJob
           /\ pc'[d] \in {"opened", "closing"} => job'[d].h \in Handles
  BY <1>1, Moves
<1>3. up /\ UNCHANGED <<up, conf, open, cur, held, across, crossed, fresh, doubt>>
  BY DEF Inv, DownInv, events
<1>4. \A d \in Callers : pc'[d] \in {"ready", "opening", "opened", "closing"} =>
        pc'[d] = pc[d] /\ job'[d] = job[d] /\ d # c
  BY <1>1, <1>2
<1>5. \A d \in Callers : HasHandle(d)' <=> HasHandle(d)
  BY <1>1, <1>2 DEF HasHandle
<1>6. Typed'
  BY <1>2, <1>3 DEF Inv, Typed, TypeOK, Places
<1>7. DownInv'
  BY <1>3 DEF DownInv
<1>8. ReadyInv'
  BY <1>3, <1>4 DEF Inv, ReadyInv
<1>9. WriterInv'
  <2>1. \A d \in Callers : pc'[d] # "writing"
    BY <1>1, <1>2 DEF Inv, WriterInv
  <2> QED
    BY <2>1 DEF WriterInv
<1>10. OpenInv'
  BY <1>3, <1>4, <1>5 DEF Inv, OpenInv, HasHandle
<1>11. PathInv'
  <2>1. \A d \in fresh : d \in Callers /\ d # c
    BY DEF Inv, PathInv, Typed, TypeOK
  <2>2. \A d \in Callers : pc'[d] = "opening" => \E p \in Paths : job'[d].path = {p}
    BY <1>4 DEF Inv, PathInv
  <2> QED
    BY <1>2, <1>3, <2>1, <2>2 DEF Inv, PathInv
<1>12. HeldInv'
  BY <1>3 DEF Inv, HeldInv
<1> QED
  BY <1>6, <1>7, <1>8, <1>9, <1>10, <1>11, <1>12

LEMMA InvWritten == ASSUME Inv, NEW c \in Callers, Written(c) PROVE Inv'
<1>1. /\ pc[c] = "writing"
      /\ whole' = TRUE /\ file' = job[c].data /\ failed' = FALSE
      /\ promise' = [i \in Items |-> IF i \in job[c].sets \ job[c].read THEN job[c].to[i] ELSE promise[i]]
      /\ UNCHANGED <<up, conf, events, held, across, crossed, fresh, doubt>>
  BY DEF Written
<1>2. up /\ conf \in Contents /\ job[c] \in Jobs /\ job[c].sets \subseteq Items
  BY <1>1 DEF Inv, DownInv, Typed, TypeOK
<1>3. job[c].data = conf /\ \A i \in job[c].sets : job[c].to[i] = conf[i]
  BY <1>1 DEF Inv, WriterInv
<1>4. \A i \in Items : promise'[i] \in {Unsure, conf[i]}
  BY <1>1, <1>2, <1>3 DEF Inv, PromiseInv, PromisesHold
<1>5. FileInv'
  BY <1>1, <1>2, <1>3, LoadedSelf DEF FileInv, Loaded
<1>6. PromiseInv'
  BY <1>1, <1>3, <1>4 DEF PromiseInv, PromisesHold
<1>7. /\ whole' \in BOOLEAN /\ file' \in Files /\ failed' \in BOOLEAN
      /\ \A i \in Items : promise'[i] \in {Unsure} \cup Of(i)
  BY <1>1, <1>2, <1>3, <1>4, ContentsFacts
<1>8. CASE "db" \in job[c].sets
  <2>1. PICK n : n = [NoJob EXCEPT !.path = {job[c].to["db"]}]
    OBVIOUS
  <2>2. pc' = [pc EXCEPT ![c] = "saved"] /\ job' = [job EXCEPT ![c] = n]
    BY <1>8, <2>1 DEF Written
  <2>3. {job[c].to["db"]} \in SUBSET Paths
    BY <1>2, <1>3, <1>8, ItemFacts, ContentsFacts
  <2>4. n \in Jobs /\ n.sets = {} /\ n.read = {}
    BY <2>1, <2>3, PathJob
  <2>5. Typed' /\ DownInv' /\ ReadyInv' /\ WriterInv' /\ OpenInv' /\ PathInv' /\ HeldInv'
    BY <1>1, <1>7, <2>2, <2>4, SaveEnds
  <2> QED
    BY <1>5, <1>6, <2>5 DEF Inv
<1>9. CASE "db" \notin job[c].sets
  <2>1. pc' = [pc EXCEPT ![c] = "idle"] /\ job' = [job EXCEPT ![c] = NoJob]
    BY <1>9 DEF Written
  <2>2. NoJob \in Jobs /\ NoJob.sets \subseteq Items /\ NoJob.read \subseteq NoJob.sets
    BY NoJobFacts DEF NoJob
  <2>3. Typed' /\ DownInv' /\ ReadyInv' /\ WriterInv' /\ OpenInv' /\ PathInv' /\ HeldInv'
    BY <1>1, <1>7, <2>1, <2>2, SaveEnds
  <2> QED
    BY <1>5, <1>6, <2>3 DEF Inv
<1> QED
  BY <1>8, <1>9

LEMMA InvWriteFails == ASSUME Inv, NEW c \in Callers, WriteFails(c) PROVE Inv'
<1>1. /\ pc[c] = "writing" /\ failed' = TRUE
      /\ pc' = [pc EXCEPT ![c] = "idle"] /\ job' = [job EXCEPT ![c] = NoJob]
      /\ UNCHANGED <<up, conf, events, held, across, crossed, fresh, doubt>>
      /\ UNCHANGED <<whole, file, promise>>
  BY DEF WriteFails, store
<1>2. NoJob \in Jobs /\ NoJob.sets \subseteq Items /\ NoJob.read \subseteq NoJob.sets
  BY NoJobFacts DEF NoJob
<1>3. /\ whole' \in BOOLEAN /\ file' \in Files /\ failed' \in BOOLEAN
      /\ \A i \in Items : promise'[i] \in {Unsure} \cup Of(i)
  BY <1>1 DEF Inv, Typed, TypeOK
<1>4. Typed' /\ DownInv' /\ ReadyInv' /\ WriterInv' /\ OpenInv' /\ PathInv' /\ HeldInv'
  BY <1>1, <1>2, <1>3, SaveEnds
<1>5. FileInv'
  BY <1>1 DEF FileInv
<1>6. PromiseInv'
  BY <1>1 DEF Inv, PromiseInv, PromisesHold
<1> QED
  BY <1>4, <1>5, <1>6 DEF Inv

-----------------------------------------------------------------------------
(* The database of events.                                                 *)

\* A step with the databases leaves alone what is saved.
LEMMA EventStep ==
  ASSUME Inv, NEW c \in Callers, pc[c] \in {"saved", "opening", "opened", "closing"},
         NEW q \in {"idle", "opening", "opened", "closing"}, pc' = [pc EXCEPT ![c] = q],
         NEW n \in Jobs, job' = [job EXCEPT ![c] = n],
         n.sets \subseteq Items, n.read \subseteq n.sets, q = "idle" => n = NoJob,
         q \in {"opened", "closing"} => n.h \in Handles,
         UNCHANGED <<up, store, promise, crossed, failed>>,
         DOMAIN open' \subseteq Handles, \A h \in DOMAIN open' : open'[h] \in GoodPaths,
         cur' \in {0} \cup Handles, held' = held, across' \subseteq Appenders,
         fresh' \subseteq Callers, doubt' \in BOOLEAN
  PROVE  /\ Typed' /\ DownInv' /\ ReadyInv' /\ WriterInv' /\ FileInv' /\ PromiseInv'
         /\ up /\ UNCHANGED <<up, conf>>
         /\ \A d \in Callers \ {c} : pc'[d] = pc[d] /\ job'[d] = job[d]
         /\ pc'[c] = q /\ job'[c] = n
<1>1. q \in Places
  BY DEF Places
<1>2. /\ \A d \in Callers \ {c} : pc'[d] = pc[d] /\ job'[d] = job[d]
      /\ pc'[c] = q /\ job'[c] = n
      /\ pc' \in [Callers -> Places] /\ job' \in [Callers -> Jobs]
      /\ \A d \in Callers :
           /\ job'[d].sets \subseteq Items /\ job'[d].read \subseteq job'[d].sets
           /\ pc'[d] = "idle" => job'[d] = NoJob
           /\ pc'[d] \in {"opened", "closing"} => job'[d].h \in Handles
  BY <1>1, Moves
<1>3. up /\ UNCHANGED <<up, conf, whole, file, promise, crossed, failed, held>>
  BY DEF Inv, DownInv, store
<1>4. \A d \in Callers : pc'[d] \in {"ready", "writing"} <=> pc[d] \in {"ready", "writing"}
  BY <1>2
<1>5. \A d \in Callers : pc'[d] \in {"ready", "writing"} => pc'[d] = pc[d] /\ job'[d] = job[d]
  BY <1>2
<1>6. Typed'
  BY <1>2, <1>3 DEF Inv, Typed, TypeOK, Places
<1>7. DownInv'
  BY <1>3 DEF DownInv
<1>8. ReadyInv'
  BY <1>3, <1>5 DEF Inv, ReadyInv
<1>9. WriterInv'
  BY <1>3, <1>5 DEF Inv, WriterInv
<1>10. FileInv'
  <2>1. \A d \in Callers : pc[d] = "writing" => pc'[d] = "writing"
    BY <1>2
  <2> QED
    BY <1>3, <2>1 DEF Inv, FileInv, Loaded
<1>11. PromiseInv'
  BY <1>3 DEF Inv, PromiseInv, PromisesHold
<1> QED
  BY <1>2, <1>3, <1>6, <1>7, <1>8, <1>9, <1>10, <1>11

LEMMA EventTypes ==
  ASSUME Inv
  PROVE  /\ pc \in [Callers -> Places] /\ job \in [Callers -> Jobs]
         /\ DOMAIN open \subseteq Handles /\ \A h \in DOMAIN open : open[h] \in GoodPaths
         /\ cur \in {0} \cup Handles /\ held \in [Appenders -> {0} \cup Handles]
         /\ across \subseteq Appenders /\ fresh \subseteq Callers /\ doubt \in BOOLEAN
         /\ \A c \in Callers : job[c].sets \subseteq Items /\ job[c].read \subseteq job[c].sets
         /\ up => conf \in Contents /\ conf["db"] \in Paths
  BY ItemFacts, ContentsFacts DEF Inv, Typed, TypeOK, Places

LEMMA InvReadPath == ASSUME Inv, NEW c \in Callers, ReadPath(c) PROVE Inv'
<1>1. /\ pc[c] = "saved" /\ pc' = [pc EXCEPT ![c] = "opening"]
      /\ job' = [job EXCEPT ![c].path = {conf["db"]}]
      /\ fresh' = fresh \cup {c}
      /\ UNCHANGED <<up, store, open, cur, held, across, promise, crossed, failed, doubt>>
  BY DEF ReadPath, PathFor, Configured, events
<1>2. up /\ conf["db"] \in Paths
  BY <1>1, EventTypes DEF Inv, DownInv
<1> DEFINE n == [job[c] EXCEPT !.path = {conf["db"]}]
<1>3. /\ n \in Jobs /\ n.sets = job[c].sets /\ n.read = job[c].read /\ n.path = {conf["db"]}
  BY <1>2, EventTypes DEF Jobs
<1>4. job' = [job EXCEPT ![c] = n]
  BY <1>1
<1> HIDE DEF n
<1>5. /\ Typed' /\ DownInv' /\ ReadyInv' /\ WriterInv' /\ FileInv' /\ PromiseInv'
      /\ \A d \in Callers \ {c} : pc'[d] = pc[d] /\ job'[d] = job[d]
      /\ pc'[c] = "opening" /\ job'[c] = n /\ UNCHANGED <<up, conf>>
  <2>1. n.sets \subseteq Items /\ n.read \subseteq n.sets
    BY <1>3, EventTypes
  <2>2. /\ DOMAIN open' \subseteq Handles /\ \A h \in DOMAIN open' : open'[h] \in GoodPaths
        /\ cur' \in {0} \cup Handles /\ held' = held /\ across' \subseteq Appenders
        /\ fresh' \subseteq Callers /\ doubt' \in BOOLEAN
    BY <1>1, EventTypes
  <2> QED
    BY <1>1, <1>3, <1>4, <2>1, <2>2, EventStep
<1>6. \A d \in Callers : /\ HasHandle(d)' <=> HasHandle(d)
                         /\ HasHandle(d) => job'[d] = job[d]
  BY <1>1, <1>5 DEF HasHandle
<1>7. OpenInv'
  BY <1>1, <1>6 DEF Inv, OpenInv
<1>8. PathInv'
  <2>1. \A d \in Callers : pc'[d] = "opening" => \E p \in Paths : job'[d].path = {p}
    BY <1>2, <1>3, <1>5 DEF Inv, PathInv
  <2>2. c \notin fresh
    BY <1>1 DEF Inv, PathInv
  <2>3. \A d \in fresh' :
          \/ pc'[d] = "opening" /\ job'[d].path = {conf'["db"]}
          \/ pc'[d] = "opened" /\ open'[job'[d].h] = conf'["db"]
    <3>1. ASSUME NEW d \in fresh
          PROVE  \/ pc'[d] = "opening" /\ job'[d].path = {conf'["db"]}
                 \/ pc'[d] = "opened" /\ open'[job'[d].h] = conf'["db"]
      <4>1. d \in Callers \ {c}
        BY <2>2, EventTypes
      <4>2. \/ pc[d] = "opening" /\ job[d].path = {conf["db"]}
            \/ pc[d] = "opened" /\ open[job[d].h] = conf["db"]
        BY DEF Inv, PathInv
      <4> QED
        BY <1>1, <1>5, <4>1, <4>2
    <3> QED
      BY <1>1, <1>3, <1>5, <3>1
  <2> QED
    BY <1>1, <1>5, <2>1, <2>3 DEF Inv, PathInv
<1>9. HeldInv'
  BY <1>1 DEF Inv, HeldInv
<1> QED
  BY <1>5, <1>7, <1>8, <1>9 DEF Inv

LEMMA InvOpenDB == ASSUME Inv, NEW c \in Callers, OpenDB(c) PROVE Inv'
<1> DEFINE h == CHOOSE x \in Unused : TRUE
           p == CHOOSE q \in job[c].path : TRUE
<1>1. /\ pc[c] = "opening" /\ UNCHANGED <<up, store, cur, held, across, promise, crossed, failed, doubt>>
  BY DEF OpenDB
<1>2. job[c].path = {p} /\ p \in Paths
  BY <1>1 DEF Inv, PathInv
<1>3. h \in Handles /\ h \notin DOMAIN open /\ \A a \in Appenders : held[a] # h
  BY UnusedHandle DEF Inv
<1>4. /\ \/ /\ p \in GoodPaths
            /\ open' = [x \in DOMAIN open \cup {h} |-> IF x = h THEN p ELSE open[x]]
            /\ pc' = [pc EXCEPT ![c] = "opened"]
            /\ job' = [job EXCEPT ![c] = [NoJob EXCEPT !.h = h]]
            /\ fresh' = fresh
         \/ /\ pc' = [pc EXCEPT ![c] = "idle"]
            /\ job' = [job EXCEPT ![c] = NoJob]
            /\ fresh' = fresh \ {c}
            /\ open' = open
  BY DEF OpenDB
<1> HIDE DEF h, p
<1>5. up /\ cur \in DOMAIN open
  BY <1>1 DEF Inv, DownInv, OpenInv
<1>6. ASSUME NEW d \in fresh
      PROVE  /\ d \in Callers
             /\ \/ pc[d] = "opening" /\ job[d].path = {conf["db"]}
                \/ pc[d] = "opened" /\ job[d].h \in DOMAIN open /\ open[job[d].h] = conf["db"]
  BY EventTypes DEF Inv, PathInv, OpenInv, HasHandle
<1>7. CASE /\ p \in GoodPaths
           /\ open' = [x \in DOMAIN open \cup {h} |-> IF x = h THEN p ELSE open[x]]
           /\ pc' = [pc EXCEPT ![c] = "opened"]
           /\ job' = [job EXCEPT ![c] = [NoJob EXCEPT !.h = h]]
           /\ fresh' = fresh
  <2>1. PICK n : n = [NoJob EXCEPT !.h = h]
    OBVIOUS
  <2>2. n \in Jobs /\ n.sets = {} /\ n.read = {} /\ n.h = h
    BY <1>3, <2>1, HandleJob
  <2>3. job' = [job EXCEPT ![c] = n]
    BY <1>7, <2>1
  <2>4. /\ Typed' /\ DownInv' /\ ReadyInv' /\ WriterInv' /\ FileInv' /\ PromiseInv'
        /\ \A d \in Callers \ {c} : pc'[d] = pc[d] /\ job'[d] = job[d]
        /\ pc'[c] = "opened" /\ job'[c] = n /\ UNCHANGED <<up, conf>>
    <3>1. DOMAIN open' \subseteq Handles /\ \A x \in DOMAIN open' : open'[x] \in GoodPaths
      BY <1>3, <1>7, EventTypes
    <3>2. /\ cur' \in {0} \cup Handles /\ held' = held /\ across' \subseteq Appenders
          /\ fresh' \subseteq Callers /\ doubt' \in BOOLEAN
      BY <1>1, <1>7, EventTypes
    <3> QED
      BY <1>1, <1>3, <1>7, <2>2, <2>3, <3>1, <3>2, EventStep
  <2>5. /\ DOMAIN open' = DOMAIN open \cup {h} /\ open'[h] = p
        /\ \A x \in DOMAIN open : open'[x] = open[x]
    BY <1>3, <1>7
  <2>6. /\ \A d \in Callers : HasHandle(d)' <=> HasHandle(d) \/ d = c
        /\ \A d \in Callers : HasHandle(d) => d # c /\ job'[d] = job[d]
        /\ job'[c].h = h
    BY <1>1, <2>2, <2>4 DEF HasHandle
  <2>7. OpenInv'
    <3>1. cur' \in DOMAIN open'
      BY <1>1, <1>5, <2>5
    <3>2. \A d \in Callers : HasHandle(d)' => job'[d].h \in DOMAIN open' \ {cur'}
      BY <1>1, <1>3, <1>5, <2>5, <2>6 DEF Inv, OpenInv
    <3>3. \A d, e \in Callers : HasHandle(d)' /\ HasHandle(e)' /\ job'[d].h = job'[e].h => d = e
      BY <1>3, <2>6 DEF Inv, OpenInv
    <3>4. \A x \in DOMAIN open' : x = cur' \/ \E d \in Callers : HasHandle(d)' /\ x = job'[d].h
      BY <1>1, <2>5, <2>6 DEF Inv, OpenInv
    <3> QED
      BY <3>1, <3>2, <3>3, <3>4 DEF OpenInv
  <2>8. PathInv'
    <3>1. \A d \in Callers : pc'[d] = "opening" => \E q \in Paths : job'[d].path = {q}
      BY <2>4 DEF Inv, PathInv
    <3>2. ASSUME NEW d \in fresh
          PROVE  \/ pc'[d] = "opening" /\ job'[d].path = {conf'["db"]}
                 \/ pc'[d] = "opened" /\ open'[job'[d].h] = conf'["db"]
      <4>1. CASE d = c
        <5>1. {p} = {conf["db"]}
          BY <1>1, <1>2, <1>6, <4>1
        <5> QED
          BY <2>2, <2>4, <2>5, <4>1, <5>1
      <4>2. CASE d # c
        BY <1>6, <2>4, <2>5, <4>2
      <4> QED
        BY <4>1, <4>2
    <3>3. up' /\ ~doubt' => open'[cur'] = conf'["db"]
      BY <1>1, <1>5, <2>4, <2>5 DEF Inv, PathInv
    <3> QED
      BY <1>7, <3>1, <3>2, <3>3 DEF PathInv
  <2>9. HeldInv'
    BY <1>1 DEF Inv, HeldInv
  <2> QED
    BY <2>4, <2>7, <2>8, <2>9 DEF Inv
<1>8. CASE /\ pc' = [pc EXCEPT ![c] = "idle"]
           /\ job' = [job EXCEPT ![c] = NoJob]
           /\ fresh' = fresh \ {c}
           /\ open' = open
  <2>1. NoJob \in Jobs /\ NoJob.sets \subseteq Items /\ NoJob.read \subseteq NoJob.sets
    BY NoJobFacts DEF NoJob
  <2>2. /\ Typed' /\ DownInv' /\ ReadyInv' /\ WriterInv' /\ FileInv' /\ PromiseInv'
        /\ \A d \in Callers \ {c} : pc'[d] = pc[d] /\ job'[d] = job[d]
        /\ pc'[c] = "idle" /\ job'[c] = NoJob /\ UNCHANGED <<up, conf>>
    <3>1. /\ DOMAIN open' \subseteq Handles /\ \A x \in DOMAIN open' : open'[x] \in GoodPaths
          /\ cur' \in {0} \cup Handles /\ held' = held /\ across' \subseteq Appenders
          /\ fresh' \subseteq Callers /\ doubt' \in BOOLEAN
      BY <1>1, <1>8, EventTypes
    <3> QED
      BY <1>1, <1>8, <2>1, <3>1, EventStep
  <2>3. \A d \in Callers : /\ HasHandle(d)' <=> HasHandle(d)
                           /\ HasHandle(d) => job'[d] = job[d]
    BY <1>1, <2>2 DEF HasHandle
  <2>4. OpenInv'
    BY <1>1, <1>8, <2>3 DEF Inv, OpenInv
  <2>5. PathInv'
    <3>1. \A d \in Callers : pc'[d] = "opening" => \E q \in Paths : job'[d].path = {q}
      BY <2>2 DEF Inv, PathInv
    <3>2. \A d \in fresh' :
            \/ pc'[d] = "opening" /\ job'[d].path = {conf'["db"]}
            \/ pc'[d] = "opened" /\ open'[job'[d].h] = conf'["db"]
      BY <1>6, <1>8, <2>2
    <3> QED
      BY <1>1, <1>8, <2>2, <3>1, <3>2 DEF Inv, PathInv
  <2>6. HeldInv'
    BY <1>1 DEF Inv, HeldInv
  <2> QED
    BY <2>2, <2>4, <2>5, <2>6 DEF Inv
<1> QED
  BY <1>4, <1>7, <1>8

LEMMA InvPublish == ASSUME Inv, NEW c \in Callers, Publish(c) PROVE Inv'
<1>1. /\ pc[c] = "opened" /\ pc' = [pc EXCEPT ![c] = "closing"]
      /\ cur' = job[c].h /\ job' = [job EXCEPT ![c].h = cur]
      /\ across' = {a \in Appenders : held[a] # 0}
      /\ fresh' = fresh \ {c} /\ doubt' = (c \notin fresh)
      /\ UNCHANGED <<up, store, open, held, promise, crossed, failed>>
  BY DEF Publish
<1>2. up /\ cur \in DOMAIN open /\ cur \in Handles
  BY <1>1, EventTypes DEF Inv, DownInv, OpenInv
<1> DEFINE n == [job[c] EXCEPT !.h = cur]
<1>3. n \in Jobs /\ n.sets = job[c].sets /\ n.read = job[c].read /\ n.h = cur
  BY <1>2, EventTypes DEF Jobs
<1>4. job' = [job EXCEPT ![c] = n]
  BY <1>1
<1> HIDE DEF n
<1>5. HasHandle(c) /\ job[c].h \in DOMAIN open /\ job[c].h # cur /\ job[c].h \in Handles
  BY <1>1, EventTypes DEF Inv, OpenInv, HasHandle
<1>6. /\ Typed' /\ DownInv' /\ ReadyInv' /\ WriterInv' /\ FileInv' /\ PromiseInv'
      /\ \A d \in Callers \ {c} : pc'[d] = pc[d] /\ job'[d] = job[d]
      /\ pc'[c] = "closing" /\ job'[c] = n /\ UNCHANGED <<up, conf>>
  <2>1. n.sets \subseteq Items /\ n.read \subseteq n.sets /\ n.h \in Handles
    BY <1>2, <1>3, EventTypes
  <2>2. /\ DOMAIN open' \subseteq Handles /\ \A h \in DOMAIN open' : open'[h] \in GoodPaths
        /\ cur' \in {0} \cup Handles /\ held' = held /\ across' \subseteq Appenders
        /\ fresh' \subseteq Callers /\ doubt' \in BOOLEAN
    BY <1>1, <1>5, EventTypes
  <2> QED
    BY <1>1, <1>3, <1>4, <2>1, <2>2, EventStep
<1>7. \A d \in Callers : HasHandle(d)' <=> HasHandle(d)
  BY <1>1, <1>6 DEF HasHandle
<1>8. OpenInv'
  <2>1. \A d \in Callers \ {c} : HasHandle(d) =>
          job'[d].h \in DOMAIN open \ {cur} /\ job'[d].h # job[c].h
    BY <1>5, <1>6 DEF Inv, OpenInv
  <2>2. \A d \in Callers : HasHandle(d)' => job'[d].h \in DOMAIN open' \ {cur'}
    BY <1>1, <1>2, <1>3, <1>5, <1>6, <1>7, <2>1
  <2>3. \A d, e \in Callers : HasHandle(d)' /\ HasHandle(e)' /\ job'[d].h = job'[e].h => d = e
    <3>1. \A d, e \in Callers : HasHandle(d) /\ HasHandle(e) /\ job[d].h = job[e].h => d = e
      BY DEF Inv, OpenInv
    <3> QED
      BY <1>3, <1>6, <1>7, <2>1, <3>1
  <2>4. \A x \in DOMAIN open' : x = cur' \/ \E d \in Callers : HasHandle(d)' /\ x = job'[d].h
    <3>1. \A x \in DOMAIN open : x = cur \/ \E d \in Callers : HasHandle(d) /\ x = job[d].h
      BY DEF Inv, OpenInv
    <3> QED
      BY <1>1, <1>3, <1>5, <1>6, <1>7, <3>1
  <2>5. cur' \in DOMAIN open'
    BY <1>1, <1>5
  <2> QED
    BY <2>2, <2>3, <2>4, <2>5 DEF OpenInv
<1>9. PathInv'
  <2>1. \A d \in Callers : pc'[d] = "opening" => \E q \in Paths : job'[d].path = {q}
    BY <1>6 DEF Inv, PathInv
  <2>2. \A d \in fresh :
          /\ d \in Callers
          /\ \/ pc[d] = "opening" /\ job[d].path = {conf["db"]}
             \/ pc[d] = "opened" /\ open[job[d].h] = conf["db"]
    BY EventTypes DEF Inv, PathInv
  <2>3. \A d \in fresh' :
          \/ pc'[d] = "opening" /\ job'[d].path = {conf'["db"]}
          \/ pc'[d] = "opened" /\ open'[job'[d].h] = conf'["db"]
    BY <1>1, <1>6, <2>2
  <2>4. ~doubt' => open'[cur'] = conf'["db"]
    BY <1>1, <1>6, <2>2
  <2> QED
    BY <2>1, <2>3, <2>4 DEF PathInv
<1>10. HeldInv'
  BY <1>1 DEF HeldInv
<1> QED
  BY <1>6, <1>8, <1>9, <1>10 DEF Inv

LEMMA InvCloseOld == ASSUME Inv, NEW c \in Callers, CloseOld(c) PROVE Inv'
<1>1. /\ pc[c] = "closing" /\ pc' = [pc EXCEPT ![c] = "idle"]
      /\ open' = [x \in DOMAIN open \ {job[c].h} |-> open[x]]
      /\ job' = [job EXCEPT ![c] = NoJob]
      /\ UNCHANGED <<up, store, cur, held, across, promise, crossed, failed, fresh, doubt>>
  BY DEF CloseOld, history
<1>2. NoJob \in Jobs /\ NoJob.sets \subseteq Items /\ NoJob.read \subseteq NoJob.sets
  BY NoJobFacts DEF NoJob
<1>3. /\ Typed' /\ DownInv' /\ ReadyInv' /\ WriterInv' /\ FileInv' /\ PromiseInv'
      /\ \A d \in Callers \ {c} : pc'[d] = pc[d] /\ job'[d] = job[d]
      /\ pc'[c] = "idle" /\ job'[c] = NoJob /\ UNCHANGED <<up, conf>> /\ up
  <2>1. /\ DOMAIN open' \subseteq Handles /\ \A h \in DOMAIN open' : open'[h] \in GoodPaths
        /\ cur' \in {0} \cup Handles /\ held' = held /\ across' \subseteq Appenders
        /\ fresh' \subseteq Callers /\ doubt' \in BOOLEAN
    BY <1>1, EventTypes
  <2> QED
    BY <1>1, <1>2, <2>1, EventStep
<1>4. HasHandle(c) /\ job[c].h # cur /\ cur \in DOMAIN open
  BY <1>1, <1>3 DEF Inv, OpenInv, HasHandle
<1>5. \A d \in Callers : HasHandle(d)' <=> HasHandle(d) /\ d # c
  BY <1>3 DEF HasHandle
<1>6. \A d \in Callers \ {c} : HasHandle(d) => job[d].h \in DOMAIN open' \ {cur}
  BY <1>1, <1>4 DEF Inv, OpenInv
<1>7. OpenInv'
  <2>1. cur' \in DOMAIN open'
    BY <1>1, <1>4
  <2>2. \A d \in Callers : HasHandle(d)' => job'[d].h \in DOMAIN open' \ {cur'}
    BY <1>1, <1>3, <1>5, <1>6
  <2>3. \A d, e \in Callers : HasHandle(d)' /\ HasHandle(e)' /\ job'[d].h = job'[e].h => d = e
    BY <1>3, <1>5 DEF Inv, OpenInv
  <2>4. \A x \in DOMAIN open' : x = cur' \/ \E d \in Callers : HasHandle(d)' /\ x = job'[d].h
    BY <1>1, <1>3, <1>5 DEF Inv, OpenInv
  <2> QED
    BY <2>1, <2>2, <2>3, <2>4 DEF OpenInv
<1>8. PathInv'
  <2>1. \A d \in Callers : pc'[d] = "opening" => \E q \in Paths : job'[d].path = {q}
    BY <1>3 DEF Inv, PathInv
  <2>2. ASSUME NEW d \in fresh
        PROVE  \/ pc'[d] = "opening" /\ job'[d].path = {conf'["db"]}
               \/ pc'[d] = "opened" /\ open'[job'[d].h] = conf'["db"]
    <3>1. /\ d \in Callers
          /\ \/ pc[d] = "opening" /\ job[d].path = {conf["db"]}
             \/ pc[d] = "opened" /\ open[job[d].h] = conf["db"]
      BY EventTypes DEF Inv, PathInv
    <3>2. d # c
      BY <1>1, <3>1
    <3>3. pc[d] = "opened" => job[d].h \in DOMAIN open'
      BY <1>6, <3>1, <3>2 DEF HasHandle
    <3> QED
      BY <1>1, <1>3, <3>1, <3>2, <3>3
  <2>3. up' /\ ~doubt' => open'[cur'] = conf'["db"]
    BY <1>1, <1>3, <1>4 DEF Inv, PathInv
  <2> QED
    BY <1>1, <2>1, <2>2, <2>3 DEF PathInv
<1>9. HeldInv'
  BY <1>1 DEF Inv, HeldInv
<1> QED
  BY <1>3, <1>7, <1>8, <1>9 DEF Inv

\* An Append touches nothing but what it holds.
LEMMA InvAppender ==
  ASSUME Inv, NEW a \in Appenders, Fetch(a) \/ Append(a)
  PROVE  Inv'
<1>1. UNCHANGED <<up, conf, whole, file, pc, job, open, cur, promise, crossed, failed, fresh, doubt>>
  BY DEF Fetch, Append, store, events, history
<1>2. /\ up
      /\ \/ held' = [held EXCEPT ![a] = cur] /\ across' = across
         \/ held' = [held EXCEPT ![a] = 0] /\ across' = across \ {a}
  BY DEF Fetch, Append, Inv, DownInv
<1>3. cur \in {0} \cup Handles /\ held \in [Appenders -> {0} \cup Handles] /\ across \subseteq Appenders
  BY EventTypes
<1>4. held' \in [Appenders -> {0} \cup Handles] /\ across' \subseteq Appenders
  BY <1>2, <1>3
<1>5. Typed'
  BY <1>1, <1>4 DEF Inv, Typed, TypeOK
<1>6. DownInv'
  BY <1>1, <1>2 DEF DownInv
<1>7. ReadyInv' /\ WriterInv'
  BY <1>1 DEF Inv, ReadyInv, WriterInv
<1>8. FileInv' /\ PromiseInv'
  BY <1>1 DEF Inv, FileInv, PromiseInv, PromisesHold, Loaded
<1>9. OpenInv' /\ PathInv'
  BY <1>1 DEF Inv, OpenInv, PathInv, HasHandle
<1>10. HeldInv'
  BY <1>1, <1>2, <1>3 DEF Inv, HeldInv
<1> QED
  BY <1>5, <1>6, <1>7, <1>8, <1>9, <1>10 DEF Inv
-----------------------------------------------------------------------------
(* Crashes and restarts.                                                   *)

LEMMA IdleInv ==
  ASSUME \A c \in Callers : pc[c] = "idle"
  PROVE  ReadyInv /\ WriterInv
  BY DEF ReadyInv, WriterInv

LEMMA InvCrash == ASSUME Inv, Crash PROVE Inv'
<1>1. /\ up' = FALSE /\ conf' = file /\ UNCHANGED <<whole, file, promise>>
      /\ pc' = [c \in Callers |-> "idle"] /\ job' = [c \in Callers |-> NoJob]
      /\ open' = None /\ cur' = 0
      /\ held' = [a \in Appenders |-> 0]
      /\ across' = {} /\ crossed' = {} /\ fresh' = {} /\ failed' = FALSE /\ doubt' = FALSE
  BY DEF Crash
<1>2. Typed'
  <2>1. NoJob.sets = {} /\ NoJob.read = {} /\ DOMAIN open' = {}
    BY <1>1 DEF NoJob, None
  <2> QED
    BY <1>1, <2>1, NoJobFacts DEF Inv, Typed, TypeOK
<1>3. DownInv'
  BY <1>1 DEF DownInv, None
<1>4. ReadyInv' /\ WriterInv'
  BY <1>1 DEF ReadyInv, WriterInv
<1>5. FileInv'
  BY <1>1 DEF FileInv
<1>6. PromiseInv'
  BY <1>1 DEF Inv, PromiseInv, PromisesHold
<1>7. OpenInv'
  BY <1>1 DEF OpenInv, HasHandle, None
<1>8. PathInv' /\ HeldInv'
  BY <1>1 DEF PathInv, HeldInv
<1> QED
  BY <1>2, <1>3, <1>4, <1>5, <1>6, <1>7, <1>8 DEF Inv

LEMMA OneIsHandle == 1 \in Handles
<1>1. Cardinality(Callers) \in Nat /\ Cardinality(Appenders) \in Nat
  BY Bounds, FS_CardinalityType DEF ConfigAssumption
<1> QED
  BY <1>1 DEF Handles

LEMMA InvRestart == ASSUME Inv, Restart PROVE Inv'
<1>1. /\ ~up /\ whole /\ file["db"] \in GoodPaths /\ up' = TRUE
      /\ conf' \in Loaded(file)
      /\ open' = [h \in {1} |-> file["db"]] /\ cur' = 1
      /\ UNCHANGED <<whole, file, pc, job, held, across, promise, crossed, failed, fresh, doubt>>
  BY DEF Restart, history
<1>2. file \in Files /\ \A i \in Items : promise[i] \in {Unsure} \cup Of(i)
  BY DEF Inv, Typed, TypeOK
<1>3. /\ conf' \in Contents /\ conf'["db"] = file["db"]
      /\ \A i \in Items : file[i] = conf'[i] \/ file[i] = Blank
  BY <1>1, <1>2, LoadedFacts
<1>4. \A c \in Callers : pc'[c] = "idle"
  BY <1>1 DEF Inv, DownInv
<1>5. fresh = {}
  BY <1>1, EventTypes DEF Inv, DownInv, PathInv
<1>6. Typed'
  BY <1>1, <1>3, OneIsHandle DEF Inv, Typed, TypeOK
<1>7. DownInv'
  BY <1>1 DEF DownInv
<1>8. ReadyInv' /\ WriterInv'
  BY <1>4 DEF ReadyInv, WriterInv
<1>9. FileInv'
  BY <1>1 DEF FileInv, Loaded
<1>10. PromiseInv'
  <2>1. \A i \in Items : promise[i] \in {Unsure, file[i]}
    BY <1>1 DEF Inv, PromiseInv
  <2>2. \A i \in Items : promise[i] # Blank \/ promise[i] = Unsure
    BY <1>2, ItemFacts
  <2>3. \A i \in Items : promise[i] \in {Unsure, conf'[i]}
    BY <1>3, <2>1, <2>2
  <2> QED
    BY <1>1, <2>1, <2>3 DEF PromiseInv, PromisesHold
<1>11. OpenInv'
  BY <1>1, <1>4 DEF OpenInv, HasHandle
<1>12. PathInv'
  BY <1>1, <1>3, <1>4, <1>5 DEF PathInv
<1>13. HeldInv'
  BY <1>1 DEF Inv, DownInv, HeldInv
<1> QED
  BY <1>6, <1>7, <1>8, <1>9, <1>10, <1>11, <1>12, <1>13 DEF Inv

LEMMA InvInit == Init => Inv
<1> SUFFICES ASSUME Init PROVE Inv
  OBVIOUS
<1>1. PICK k \in Files :
        /\ k["db"] \in GoodPaths
        /\ up = TRUE /\ conf \in Loaded(k) /\ whole = TRUE /\ file = k
        /\ pc = [c \in Callers |-> "idle"] /\ job = [c \in Callers |-> NoJob]
        /\ open = [h \in {1} |-> k["db"]] /\ cur = 1
        /\ held = [a \in Appenders |-> 0] /\ across = {}
        /\ promise = [i \in Items |-> IF k[i] = Blank THEN Unsure ELSE k[i]]
        /\ crossed = {} /\ failed = FALSE /\ fresh = {} /\ doubt = FALSE
  BY DEF Init
<1>2. /\ conf \in Contents /\ conf["db"] = k["db"]
      /\ \A i \in Items : conf[i] \in Of(i) /\ (k[i] = conf[i] \/ k[i] = Blank)
  BY <1>1, LoadedFacts
<1>3. \A i \in Items : promise[i] \in {Unsure, conf[i]} /\ promise[i] \in {Unsure, k[i]}
  BY <1>1, <1>2
<1>4. Typed
  <2>1. NoJob.sets = {} /\ NoJob.read = {}
    BY DEF NoJob
  <2>2. \A i \in Items : promise[i] \in {Unsure} \cup Of(i)
    BY <1>2, <1>3
  <2> QED
    BY <1>1, <1>2, <2>1, <2>2, NoJobFacts, OneIsHandle DEF Typed, TypeOK
<1>5. DownInv
  BY <1>1 DEF DownInv
<1>6. ReadyInv /\ WriterInv
  BY <1>1, IdleInv
<1>7. FileInv
  BY <1>1 DEF FileInv
<1>8. PromiseInv
  BY <1>1, <1>3 DEF PromiseInv, PromisesHold
<1>9. OpenInv
  BY <1>1 DEF OpenInv, HasHandle
<1>10. PathInv /\ HeldInv
  BY <1>1, <1>2 DEF PathInv, HeldInv
<1> QED
  BY <1>4, <1>5, <1>6, <1>7, <1>8, <1>9, <1>10 DEF Inv

LEMMA InvNext == Inv /\ [Next]_vars => Inv'
<1> SUFFICES ASSUME Inv, [Next]_vars PROVE Inv'
  OBVIOUS
<1>1. ASSUME NEW c \in Callers, NEW s \in Streams, NEW there \in BOOLEAN, SetStream(c, s, there)
      PROVE  Inv'
  <2>1. s \in Items /\ there \in Of(s)
    BY ItemFacts
  <2> QED
    BY <1>1, <2>1, SendsItem DEF SetStream
<1>2. ASSUME NEW c \in Callers, NEW d \in Paths, SetDetection(c, d)
      PROVE  Inv'
  <2>1. "db" \in Items /\ d \in Of("db")
    BY ItemFacts
  <2> QED
    BY <1>2, <2>1, SendsItem DEF SetDetection
<1>3. ASSUME NEW c \in Callers, NEW v \in Secrets, SetSecret(c, v)
      PROVE  Inv'
  <2>1. "secret" \in Items /\ v \in Of("secret")
    BY ItemFacts
  <2> QED
    BY <1>3, <2>1, SendsItem DEF SetSecret
<1>4. CASE UNCHANGED vars
  <2>1. UNCHANGED <<up, conf, whole, file, pc, job, open, cur, held, across, promise,
                    crossed, failed, fresh, doubt>>
    BY <1>4 DEF vars, store, events, history
  <2>2. Typed' /\ DownInv'
    BY <2>1 DEF Inv, Typed, TypeOK, DownInv
  <2>3. ReadyInv' /\ WriterInv' /\ FileInv' /\ PromiseInv'
    BY <2>1 DEF Inv, ReadyInv, WriterInv, FileInv, PromiseInv, PromisesHold, Loaded
  <2>4. OpenInv' /\ PathInv' /\ HeldInv'
    BY <2>1 DEF Inv, OpenInv, PathInv, HeldInv, HasHandle
  <2> QED
    BY <2>2, <2>3, <2>4 DEF Inv
<1> QED
  BY <1>1, <1>2, <1>3, <1>4, InvLeaveSecret, InvUpdate, InvWritten, InvWriteFails, InvReadPath,
     InvOpenDB, InvPublish, InvCloseOld, InvAppender, InvCrash, InvRestart DEF Next

LEMMA InvCorrect == Spec => []Inv
<1>1. Init => Inv
  BY InvInit
<1>2. Inv /\ [Next]_vars => Inv'
  BY InvNext
<1> QED
  BY <1>1, <1>2, PTL DEF Spec
-----------------------------------------------------------------------------
(* What follows from it.                                                   *)

\* Contents are well formed, a request that is done leaves nothing behind, and handles are
\* handles: at every step of overlapping requests, and across crashes.
THEOREM TypeCorrect == Spec => []TypeOK
<1>1. Inv => TypeOK
  BY DEF Inv, Typed
<1> QED
  BY <1>1, InvCorrect, PTL

\* What a saved request made of an item stays, across crashes and restarts, until another
\* request changes it.
THEOREM PromisesHoldCorrect == Spec => []PromisesHold
<1>1. Inv => PromisesHold
  BY DEF Inv, PromiseInv
<1> QED
  BY <1>1, InvCorrect, PTL

\* After a successful save, and when the configured path has been opened, the process would
\* start again with what it has in memory.
THEOREM StartsAgainCorrect == Spec => []StartsAgain
<1>1. Inv => StartsAgain
  <2> SUFFICES ASSUME Inv, Quiet, ~failed, ~doubt
               PROVE  whole /\ file["db"] \in GoodPaths /\ conf \in Loaded(file)
    BY DEF StartsAgain
  <2>1. up /\ \A c \in Callers : pc[c] # "writing"
    BY DEF Quiet
  <2>2. whole /\ conf \in Loaded(file)
    BY <2>1 DEF Inv, FileInv
  <2>3. conf["db"] = file["db"]
    BY <2>2, LoadedFacts DEF Inv, Typed, TypeOK
  <2>4. conf["db"] \in GoodPaths
    BY <2>1, EventTypes DEF Inv, OpenInv, PathInv
  <2> QED
    BY <2>2, <2>3, <2>4
<1> QED
  BY <1>1, InvCorrect, PTL

\* However many requests change the database at once, one is open when they are done, the
\* configured one if that was opened last; and who holds a closed handle got it before a change.
THEOREM OneOpenDatabaseCorrect == Spec => []OneOpenDatabase
<1>1. Inv => OneOpenDatabase
  <2> SUFFICES ASSUME Inv PROVE OneOpenDatabase
    OBVIOUS
  <2>1. Quiet => DOMAIN open = {cur} /\ (~doubt => open[cur] = conf["db"])
    BY DEF Quiet, Inv, OpenInv, PathInv, HasHandle
  <2>2. \A a \in Appenders : held[a] # 0 /\ a \notin across => held[a] \in DOMAIN open
    BY DEF Inv, DownInv, HeldInv, OpenInv
  <2> QED
    BY <2>1, <2>2 DEF OneOpenDatabase
<1> QED
  BY <1>1, InvCorrect, PTL

=============================================================================
