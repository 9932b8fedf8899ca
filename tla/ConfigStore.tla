----------------------------- MODULE ConfigStore ----------------------------
(* The configuration in memory, the file it is saved in, and the database  *)
(* of detection events whose path it names (storageConfig.go,              *)
(* storageStream.go, apiHTTPSettings.go, apiHTTPDetection.go,              *)
(* detectionEventStore.go, RTSPtoWeb.go), across crashes and restarts.     *)
(*                                                                         *)
(* Of the contents the model has an item for each kind of request: streams,*)
(* the share settings' SignSecret, and the detection settings' database.   *)
(* Their AccessToken is read and written back as SignSecret is.            *)
EXTENDS Naturals, FiniteSets

CONSTANTS
  Callers,    \* goroutines of settings requests
  Appenders,  \* goroutines that store events
  Streams,
  Secrets,    \* SignSecret
  GoodPaths,  \* EventsDBPath that can be opened
  BadPaths,   \* and that cannot
  Blank,      \* a secret that a request leaves out
  Unsure      \* no promise

ASSUME ConfigAssumption ==
  /\ {Blank, Unsure} \cap (Secrets \cup GoodPaths \cup BadPaths \cup BOOLEAN) = {}
  /\ Secrets # {} /\ GoodPaths # {}
  /\ Streams \cap {"secret", "db"} = {}
  /\ IsFiniteSet(Callers) /\ IsFiniteSet(Appenders)

Items == Streams \cup {"secret", "db"}
Paths == GoodPaths \cup BadPaths
Of(i) == CASE i \in Streams -> BOOLEAN
           [] i = "secret" -> Secrets
           [] i = "db" -> Paths
Contents == {k \in [Items -> BOOLEAN \cup Secrets \cup Paths] : \A i \in Items : k[i] \in Of(i)}
\* A file that was never saved may lack the secret.
Files == Contents \cup {[k EXCEPT !["secret"] = Blank] : k \in Contents}

VARIABLES
  up,       \* the process runs
  conf,     \* Storage: what is in memory
  whole,    \* the file has a whole configuration
  file,     \* and this one
  pc,       \* where a caller is
  job,      \* what its request sets, which of it was read and not sent, what it writes,
            \* and the database it has opened or is to close
  open,     \* handle -> path of the databases that are open
  cur,      \* DetectionEvents.db
  held,     \* the handle an Append has got, 0 for none
  across,   \* history: Appends during which the database was changed
  promise,  \* history: what the last saved call made of an item
  crossed,  \* history: callers whose read secret somebody else has changed
  failed,   \* history: the last save failed
  fresh,    \* history: callers that have read the path that is still configured
  doubt     \* history: no call has opened the path that is configured

store == <<conf, whole, file>>
events == <<open, cur>>
history == <<promise, crossed, failed, fresh, doubt>>
vars == <<up, store, pc, job, events, held, across, history>>

None == [x \in {} |-> 0]
NoJob == [sets |-> {}, to |-> None, read |-> {}, data |-> None, path |-> {}, h |-> 0]
Handles == 1..(2 * Cardinality(Callers) + Cardinality(Appenders) + 1)

TypeOK ==
  /\ up \in BOOLEAN /\ whole \in BOOLEAN
  /\ (up => conf \in Contents) /\ file \in Files
  /\ pc \in [Callers -> {"idle", "ready", "writing", "saved", "opening", "opened", "closing"}]
  /\ \A c \in Callers :
       /\ job[c].sets \subseteq Items /\ job[c].read \subseteq job[c].sets
       /\ pc[c] = "idle" => job[c] = NoJob
       /\ pc[c] \in {"opened", "closing"} => job[c].h \in Handles
  /\ DOMAIN open \subseteq Handles /\ \A h \in DOMAIN open : open[h] \in GoodPaths
  /\ cur \in {0} \cup Handles /\ held \in [Appenders -> {0} \cup Handles]
  /\ across \subseteq Appenders /\ crossed \subseteq Callers /\ fresh \subseteq Callers
  /\ \A i \in Items : promise[i] \in {Unsure} \cup Of(i)
  /\ failed \in BOOLEAN /\ doubt \in BOOLEAN
-----------------------------------------------------------------------------
\* Storage.mutex is held for as long as the file is written.
MutexTaken == \E c \in Callers : pc[c] = "writing"
NoMutex == FALSE  \* mutant: the file is written after the mutex is given back
Locked == MutexTaken

\* The items a caller changes: those it sent, and what it has read if somebody changed it since.
Changes(c, j) == IF c \in crossed THEN j.sets ELSE j.sets \ j.read

\* The contents with a request's change, and what SaveConfig marshals of it.
With(j) == [i \in Items |-> IF i \in j.sets THEN j.to[i] ELSE conf[i]]
Marshal(j) == With(j)
MarshalOld(j) == conf  \* mutant: saved before the change is made
Data(j) == Marshal(j)

\* A request's change in memory, and the beginning of SaveConfig: the file cannot be opened,
\* or it is truncated.  An error leaves the change in memory.
ChangeAndSave(c, j) ==
  LET changed == Changes(c, j) IN
  /\ ~Locked
  /\ conf' = With(j)
  /\ promise' = [i \in Items |-> IF i \in changed THEN Unsure ELSE promise[i]]
  /\ crossed' = (crossed \cup {d \in Callers \ {c} : pc[d] = "ready" /\ job[d].read \cap changed # {}}) \ {c}
  /\ IF "db" \in j.sets THEN doubt' = TRUE /\ fresh' = {} ELSE UNCHANGED <<doubt, fresh>>
  /\ \/ /\ pc' = [pc EXCEPT ![c] = "idle"]
        /\ job' = [job EXCEPT ![c] = NoJob]
        /\ failed' = TRUE /\ UNCHANGED <<whole, file>>
     \/ /\ pc' = [pc EXCEPT ![c] = "writing"]
        /\ job' = [job EXCEPT ![c] = [j EXCEPT !.data = Data(j), !.read = j.sets \ changed]]
        /\ whole' = FALSE /\ UNCHANGED <<file, failed>>

\* StreamAdd and StreamDelete
SetStream(c, s, there) ==
  /\ up /\ pc[c] = "idle" /\ conf[s] # there
  /\ ChangeAndSave(c, [NoJob EXCEPT !.sets = {s}, !.to = [i \in {s} |-> there]])
  /\ UNCHANGED <<up, events, held, across>>

\* HTTPAPIUpdateGlobalSettings, with a secret,
SetSecret(c, v) ==
  /\ up /\ pc[c] = "idle"
  /\ ChangeAndSave(c, [NoJob EXCEPT !.sets = {"secret"}, !.to = [i \in {"secret"} |-> v]])
  /\ UNCHANGED <<up, events, held, across>>

\* or without: then it is read, and the mutex given back before the settings are replaced.
Refill == conf["secret"]
NoRefill == Blank  \* mutant: a secret that is left out is removed
Filled == Refill
LeaveSecret(c) ==
  /\ up /\ pc[c] = "idle" /\ ~Locked
  /\ pc' = [pc EXCEPT ![c] = "ready"]
  /\ job' = [job EXCEPT ![c] = [NoJob EXCEPT
       !.sets = {"secret"}, !.to = [i \in {"secret"} |-> Filled], !.read = {"secret"}]]
  /\ UNCHANGED <<up, store, events, held, across, history>>
Update(c) ==
  /\ pc[c] = "ready"
  /\ ChangeAndSave(c, job[c])
  /\ UNCHANGED <<up, events, held, across>>

\* HTTPAPIUpdateDetectionSettings
SetDetection(c, d) ==
  /\ up /\ pc[c] = "idle"
  /\ ChangeAndSave(c, [NoJob EXCEPT !.sets = {"db"}, !.to = [i \in {"db"} |-> d]])
  /\ UNCHANGED <<up, events, held, across>>

\* The file is written, and the mutex given back.  A detection request goes on.
Written(c) ==
  /\ pc[c] = "writing"
  /\ whole' = TRUE /\ file' = job[c].data /\ failed' = FALSE
  /\ promise' = [i \in Items |-> IF i \in job[c].sets \ job[c].read THEN job[c].to[i] ELSE promise[i]]
  /\ IF "db" \in job[c].sets
     THEN /\ pc' = [pc EXCEPT ![c] = "saved"]
          /\ job' = [job EXCEPT ![c] = [NoJob EXCEPT !.path = {job[c].to["db"]}]]
     ELSE /\ pc' = [pc EXCEPT ![c] = "idle"]
          /\ job' = [job EXCEPT ![c] = NoJob]
  /\ UNCHANGED <<up, conf, events, held, across, crossed, fresh, doubt>>

\* The file cannot be written to its end.
WriteFails(c) ==
  /\ pc[c] = "writing"
  /\ failed' = TRUE
  /\ pc' = [pc EXCEPT ![c] = "idle"]
  /\ job' = [job EXCEPT ![c] = NoJob]
  /\ UNCHANGED <<up, store, events, held, across, promise, crossed, fresh, doubt>>
-----------------------------------------------------------------------------
\* A detection request opens what is configured when it asks, not what it sent.
Configured(c) == {conf["db"]}
Sent(c) == job[c].path  \* mutant: it opens what it sent
PathFor(c) == Configured(c)
ReadPath(c) ==
  /\ pc[c] = "saved" /\ ~Locked
  /\ pc' = [pc EXCEPT ![c] = "opening"]
  /\ job' = [job EXCEPT ![c].path = PathFor(c)]
  /\ fresh' = fresh \cup {c}
  /\ UNCHANGED <<up, store, events, held, across, promise, crossed, failed, doubt>>

\* DetectionEventStore.Init opens a database,
Unused == Handles \ (DOMAIN open \cup {held[a] : a \in Appenders})
OpenDB(c) ==
  LET h == CHOOSE x \in Unused : TRUE
      p == CHOOSE q \in job[c].path : TRUE IN
  /\ pc[c] = "opening"
  /\ IF p \in GoodPaths
     THEN /\ open' = [x \in DOMAIN open \cup {h} |-> IF x = h THEN p ELSE open[x]]
          /\ pc' = [pc EXCEPT ![c] = "opened"]
          /\ job' = [job EXCEPT ![c] = [NoJob EXCEPT !.h = h]]
          /\ UNCHANGED fresh
     ELSE /\ pc' = [pc EXCEPT ![c] = "idle"]
          /\ job' = [job EXCEPT ![c] = NoJob]
          /\ fresh' = fresh \ {c}
          /\ UNCHANGED open
  /\ UNCHANGED <<up, store, cur, held, across, promise, crossed, failed, doubt>>

\* publishes it,
Publish(c) ==
  /\ pc[c] = "opened"
  /\ cur' = job[c].h
  /\ job' = [job EXCEPT ![c].h = cur]
  /\ pc' = [pc EXCEPT ![c] = "closing"]
  /\ across' = {a \in Appenders : held[a] # 0}
  /\ fresh' = fresh \ {c} /\ doubt' = (c \notin fresh)
  /\ UNCHANGED <<up, store, open, held, promise, crossed, failed>>

\* and closes the one before.
CloseOld(c) ==
  /\ pc[c] = "closing"
  /\ open' = [x \in DOMAIN open \ {job[c].h} |-> open[x]]
  /\ pc' = [pc EXCEPT ![c] = "idle"]
  /\ job' = [job EXCEPT ![c] = NoJob]
  /\ UNCHANGED <<up, store, cur, held, across, history>>

\* Append fetches the handle, and stores its event with it, or gets an error if it is closed.
Fetch(a) ==
  /\ up /\ held[a] = 0
  /\ held' = [held EXCEPT ![a] = cur]
  /\ UNCHANGED <<up, store, pc, job, events, across, history>>
Append(a) ==
  /\ held[a] # 0
  /\ held' = [held EXCEPT ![a] = 0]
  /\ across' = across \ {a}
  /\ UNCHANGED <<up, store, pc, job, events, history>>
-----------------------------------------------------------------------------
\* The process ends, at any step, and its memory is gone.
Crash ==
  /\ up /\ up' = FALSE
  /\ conf' = file /\ UNCHANGED <<whole, file, promise>>
  /\ pc' = [c \in Callers |-> "idle"] /\ job' = [c \in Callers |-> NoJob]
  /\ open' = None /\ cur' = 0
  /\ held' = [a \in Appenders |-> 0]
  /\ across' = {} /\ crossed' = {} /\ fresh' = {} /\ failed' = FALSE /\ doubt' = FALSE

\* applyServerDefaults makes up a secret that is missing, and does not save it.
Loaded(k) == {l \in Contents : \A i \in Items : k[i] \in {l[i], Blank}}

\* NewStreamCore exits when the file does not parse, and main when the database does not open.
Restart ==
  /\ ~up /\ whole /\ file["db"] \in GoodPaths
  /\ up' = TRUE
  /\ conf' \in Loaded(file)
  /\ open' = [h \in {1} |-> file["db"]] /\ cur' = 1
  /\ UNCHANGED <<whole, file, pc, job, held, across, history>>
-----------------------------------------------------------------------------
\* The process has been started with a file that was there.
Init ==
  \E k \in Files :
    /\ k["db"] \in GoodPaths
    /\ up = TRUE /\ conf \in Loaded(k) /\ whole = TRUE /\ file = k
    /\ pc = [c \in Callers |-> "idle"] /\ job = [c \in Callers |-> NoJob]
    /\ open = [h \in {1} |-> k["db"]] /\ cur = 1
    /\ held = [a \in Appenders |-> 0] /\ across = {}
    /\ promise = [i \in Items |-> IF k[i] = Blank THEN Unsure ELSE k[i]] /\ crossed = {} /\ failed = FALSE /\ fresh = {} /\ doubt = FALSE

Next ==
  \/ \E c \in Callers :
       \/ \E s \in Streams, there \in BOOLEAN : SetStream(c, s, there)
       \/ \E d \in Paths : SetDetection(c, d)
       \/ \E v \in Secrets : SetSecret(c, v)
       \/ LeaveSecret(c) \/ Update(c) \/ Written(c) \/ WriteFails(c)
       \/ ReadPath(c) \/ OpenDB(c) \/ Publish(c) \/ CloseOld(c)
  \/ \E a \in Appenders : Fetch(a) \/ Append(a)
  \/ Crash \/ Restart

Spec == Init /\ [][Next]_vars
-----------------------------------------------------------------------------
Quiet == up /\ \A c \in Callers : pc[c] = "idle"

\* What a saved request made of an item is what the process has, across crashes and restarts,
\* until another request changes it.  A request that leaves a secret out changes it not, unless
\* somebody else did so between its read and its update; a request whose save failed promises
\* nothing, though later saves may write what it changed.
PromisesHold == up => \A i \in Items : promise[i] \in {Unsure, conf[i]}

\* When nothing is under way, the last save did not fail and the configured path has been
\* opened, then the process would start again with what it has in memory now; but for a secret
\* that it made up and has not had an occasion to save.
StartsAgain ==
  Quiet /\ ~failed /\ ~doubt =>
    /\ whole /\ file["db"] \in GoodPaths
    /\ conf \in Loaded(file)

\* However requests overlap, one database is open when they are done, for none leaks: the
\* configured one, unless opening that failed or a request that had read another path published
\* it last.  And an Append is refused only if the database was changed between its fetch and its
\* store.
OneOpenDatabase ==
  /\ Quiet => DOMAIN open = {cur} /\ (~doubt => open[cur] = conf["db"])
  /\ \A a \in Appenders : held[a] # 0 /\ a \notin across => held[a] \in DOMAIN open
=============================================================================
