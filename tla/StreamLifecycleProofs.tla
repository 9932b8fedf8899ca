---------------------- MODULE StreamLifecycleProofs ----------------------
(* Theorems about StreamLifecycle, for every set of streams, channels,     *)
(* workers and viewers and every capacity of `signals'.                    *)
EXTENDS StreamLifecycle, FiniteSetTheorems, TLAPS

LEMMA AnyKeyIsKey == AnyKey \in Keys
<1>1. PICK s \in Streams, c \in Channels : TRUE
  BY LifecycleAssumption
<1>2. <<s, c>> \in Keys
  BY DEF Keys
<1> QED
  BY <1>2 DEF AnyKey

\* What starting workers does: the new ones are at `control', one for each channel
\* of S, and the others stay where they are.
LEMMA SpawnFacts ==
  ASSUME TypeOK, NEW S \in SUBSET Keys, NEW U, Spawn(S, U)
  PROVE  /\ wpc' \in [Workers -> WorkerPC] /\ wkey' \in [Workers -> Keys]
         /\ \A w \in Workers : wpc[w] # "free" => wpc'[w] = wpc[w] /\ wkey'[w] = wkey[w]
         /\ \A w \in Workers : wpc[w] = "free" =>
              \/ wpc'[w] = "free" /\ wkey'[w] = wkey[w]
              \/ wpc'[w] = "control" /\ wkey'[w] \in S
         /\ \A k \in S : \E w \in Workers :
              wpc[w] = "free" /\ wpc'[w] = "control" /\ wkey'[w] = k
         /\ \A v, w \in Workers :
              /\ wpc[v] = "free" /\ wpc'[v] = "control"
              /\ wpc[w] = "free" /\ wpc'[w] = "control"
              /\ wkey'[v] = wkey'[w]
              => v = w
         /\ unguarded' \in [Keys -> Nat]
         /\ unguarded' = [k \in Keys |-> IF k \in U THEN unguarded[k] + 1 ELSE unguarded[k]]
         /\ wopt' = wopt /\ wod' = wod /\ wret' = wret
<1> DEFINE Free == {w \in Workers : wpc[w] = "free"}
<1>1. PICK hire \in Injection(S, Free) :
        /\ wpc' = [w \in Workers |-> IF w \in Range(hire) THEN "control" ELSE wpc[w]]
        /\ wkey' = [w \in Workers |-> IF w \in Range(hire)
                                      THEN CHOOSE k \in S : hire[k] = w ELSE wkey[w]]
  BY DEF Spawn
<1>2. /\ hire \in [S -> Free]
      /\ \A a, b \in S : hire[a] = hire[b] => a = b
      /\ Range(hire) = {hire[k] : k \in S}
  BY DEF Injection, IsInjective, Range
<1>3. \A k \in S : (CHOOSE j \in S : hire[j] = hire[k]) = k
  BY <1>2
<1>4. \A k \in S : wpc'[hire[k]] = "control" /\ wkey'[hire[k]] = k
  BY <1>1, <1>2, <1>3
<1>5. \A w \in Workers : w \notin Range(hire) => wpc'[w] = wpc[w] /\ wkey'[w] = wkey[w]
  BY <1>1
<1>6. /\ wpc' \in [Workers -> WorkerPC] /\ wkey' \in [Workers -> Keys]
  BY <1>1, <1>2, <1>3 DEF TypeOK, WorkerPC
<1>7. unguarded' \in [Keys -> Nat]
  BY DEF Spawn, TypeOK
<1>8. \A w \in Workers : wpc[w] # "free" => wpc'[w] = wpc[w] /\ wkey'[w] = wkey[w]
  BY <1>2, <1>5
<1>9. ASSUME NEW w \in Workers, wpc[w] = "free"
      PROVE  \/ w \notin Range(hire) /\ wpc'[w] = "free" /\ wkey'[w] = wkey[w]
             \/ \E k \in S : w = hire[k] /\ wpc'[w] = "control" /\ wkey'[w] = k
  BY <1>2, <1>4, <1>5, <1>9
<1>10. \A k \in S : \E w \in Workers : wpc[w] = "free" /\ wpc'[w] = "control" /\ wkey'[w] = k
  BY <1>2, <1>4
<1>11. wopt' = wopt /\ wod' = wod /\ wret' = wret
  BY DEF Spawn
<1>12. unguarded' = [k \in Keys |-> IF k \in U THEN unguarded[k] + 1 ELSE unguarded[k]]
  BY DEF Spawn
<1>13. \A w \in Workers : wpc[w] = "free" =>
              \/ wpc'[w] = "free" /\ wkey'[w] = wkey[w]
              \/ wpc'[w] = "control" /\ wkey'[w] \in S
  BY <1>9
<1>14. \A v, w \in Workers :
              /\ wpc[v] = "free" /\ wpc'[v] = "control"
              /\ wpc[w] = "free" /\ wpc'[w] = "control"
              /\ wkey'[v] = wkey'[w]
              => v = w
  BY <1>9
<1> QED
  BY <1>6, <1>7, <1>8, <1>10, <1>11, <1>12, <1>13, <1>14

\* What replacing the channels R by the channels K does to the registry.
LEMMA InstallFacts ==
  ASSUME TypeOK, NEW R \in SUBSET conf, NEW K \in SUBSET Keys,
         NEW od \in SUBSET K, NEW L \in SUBSET K, Install(R, K, od, L)
  PROVE  /\ conf' = (conf \ R) \cup K
         /\ gen' \in [Keys -> Nat]
         /\ \A k \in Keys : gen'[k] <= MaxGen /\ (k \in conf' => gen'[k] > 0)
         /\ onDemand' \subseteq conf' /\ runLock' \subseteq conf'
         /\ online' \subseteq conf' /\ fresh' \subseteq conf'
         /\ clients' \in [Keys -> SUBSET Viewers]
<1>1. /\ gen' \in [Keys -> Nat]
      /\ \A k \in Keys : gen'[k] <= MaxGen /\ (k \in conf' => gen'[k] > 0)
  BY LifecycleAssumption DEF Install, TypeOK
<1>2. clients' \in [Keys -> SUBSET Viewers]
  BY DEF Install, TypeOK
<1> QED
  BY <1>1, <1>2 DEF Install, TypeOK

\* Sending keeps the queues well typed; only the current incarnation of a channel of T
\* gets a signal.
LEMMA SendFacts ==
  ASSUME TypeOK, NEW T \in SUBSET conf, NEW s \in Signals, Send(T, s)
  PROVE  /\ sig' \in [Keys -> [1..MaxGen -> Seq(Signals)]]
         /\ \A k \in Keys, g \in 1..MaxGen :
              sig'[k][g] = IF k \in T /\ g = gen[k] THEN Append(sig[k][g], s) ELSE sig[k][g]
<1>1. ASSUME NEW k \in Keys
      PROVE  /\ sig'[k] \in [1..MaxGen -> Seq(Signals)]
             /\ \A g \in 1..MaxGen :
                  sig'[k][g] = IF k \in T /\ g = gen[k] THEN Append(sig[k][g], s) ELSE sig[k][g]
  <2>1. sig[k] \in [1..MaxGen -> Seq(Signals)]
    BY DEF TypeOK
  <2>2. CASE k \in T
    <3>1. gen[k] \in 1..MaxGen
      BY <2>2, LifecycleAssumption DEF TypeOK
    <3>2. sig'[k] = [sig[k] EXCEPT ![gen[k]] = Append(sig[k][gen[k]], s)]
      BY <2>2 DEF Send
    <3>4. sig[k][gen[k]] \in Seq(Signals)
      BY <2>1, <3>1
    <3>3. Append(sig[k][gen[k]], s) \in Seq(Signals)
      BY <3>4, s \in Signals
    <3> QED
      BY <2>1, <2>2, <3>1, <3>2, <3>3
  <2>3. CASE k \notin T
    BY <2>1, <2>3 DEF Send
  <2> QED
    BY <2>2, <2>3
<1>2. sig' = [k \in Keys |-> sig'[k]]
  BY DEF Send
<1>3. sig' \in [Keys -> [1..MaxGen -> Seq(Signals)]]
  <2>1. \A k \in Keys : sig'[k] \in [1..MaxGen -> Seq(Signals)]
    BY <1>1
  <2> QED
    BY <1>2, <2>1
<1> QED
  BY <1>1, <1>3

\* Taking a signal removes the head of one queue.
LEMMA TakeFacts ==
  ASSUME TypeOK, NEW w \in Workers, TakeSignal(w)
  PROVE  /\ sig' \in [Keys -> [1..MaxGen -> Seq(Signals)]]
         /\ \A k \in Keys, g \in 1..MaxGen :
              sig'[k][g] = IF k = wkey[w] /\ g = wopt[w] THEN Tail(sig[k][g]) ELSE sig[k][g]
<1> DEFINE j == wkey[w]
<1>1. /\ sig' = [sig EXCEPT ![j] = [sig[j] EXCEPT ![wopt[w]] = Tail(sig[j][wopt[w]])]]
      /\ sig[j][wopt[w]] # <<>>
  BY DEF TakeSignal
<1>2. j \in Keys /\ sig \in [Keys -> [1..MaxGen -> Seq(Signals)]]
  BY DEF TypeOK
<1>3. \A q \in Seq(Signals) : q # <<>> => Tail(q) \in Seq(Signals)
  OBVIOUS
<1> HIDE DEF j
<1>4. [sig[j] EXCEPT ![wopt[w]] = Tail(sig[j][wopt[w]])] \in [1..MaxGen -> Seq(Signals)]
  BY <1>1, <1>2, <1>3
<1>5. sig' \in [Keys -> [1..MaxGen -> Seq(Signals)]]
  BY <1>1, <1>2, <1>4
<1>6. \A k \in Keys, g \in 1..MaxGen :
        sig'[k][g] = IF k = j /\ g = wopt[w] THEN Tail(sig[k][g]) ELSE sig[k][g]
  BY <1>1, <1>2
<1> QED
  BY <1>5, <1>6 DEF j

\* The two halves of TypeOK that Spawn and Install change.
WorkersTyped ==
  /\ wpc \in [Workers -> WorkerPC] /\ wkey \in [Workers -> Keys]
  /\ wopt \in [Workers -> 0..MaxGen] /\ wod \in [Workers -> BOOLEAN]
  /\ wret \in [Workers -> 0..2] /\ unguarded \in [Keys -> Nat]

RegistryTyped ==
  /\ gen \in [Keys -> Nat]
  /\ \A k \in Keys : gen[k] <= MaxGen /\ (k \in conf => gen[k] > 0)
  /\ onDemand \subseteq conf /\ runLock \subseteq conf
  /\ online \subseteq conf /\ fresh \subseteq conf
  /\ clients \in [Keys -> SUBSET Viewers]

LEMMA SpawnTypes ==
  ASSUME TypeOK, NEW S \in SUBSET Keys, NEW U, Spawn(S, U)
  PROVE  WorkersTyped'
<1>1. /\ wpc' \in [Workers -> WorkerPC] /\ wkey' \in [Workers -> Keys]
      /\ unguarded' \in [Keys -> Nat]
      /\ wopt' = wopt /\ wod' = wod /\ wret' = wret
  BY SpawnFacts
<1> QED
  BY <1>1 DEF TypeOK, WorkersTyped

LEMMA InstallTypes ==
  ASSUME TypeOK, NEW R \in SUBSET conf, NEW K \in SUBSET Keys,
         NEW od \in SUBSET K, NEW L \in SUBSET K, Install(R, K, od, L)
  PROVE  RegistryTyped' /\ conf' = (conf \ R) \cup K
BY InstallFacts DEF RegistryTyped

LEMMA StreamChannelSets ==
  ASSUME NEW s \in Streams, NEW K \in SUBSET ({s} \X Channels)
  PROVE  K \in SUBSET Keys /\ \A k \in K : k[1] = s
  BY DEF Keys

LEMMA TypeInit == Init => TypeOK
<1> SUFFICES ASSUME Init PROVE TypeOK
  OBVIOUS
<1>1. gen \in [Keys -> Nat] /\ \A k \in Keys : gen[k] <= MaxGen /\ (k \in conf => gen[k] > 0)
  BY LifecycleAssumption DEF Init
<1>2. sig \in [Keys -> [1..MaxGen -> Seq(Signals)]]
  <2>1. <<>> \in Seq(Signals)
    OBVIOUS
  <2>2. [g \in 1..MaxGen |-> <<>>] \in [1..MaxGen -> Seq(Signals)]
    BY <2>1
  <2> QED
    BY <2>2 DEF Init
<1>3. /\ wpc \in [Workers -> WorkerPC] /\ wkey \in [Workers -> Keys]
      /\ wopt \in [Workers -> 0..MaxGen] /\ wod \in [Workers -> BOOLEAN]
      /\ wret \in [Workers -> 0..2]
  BY AnyKeyIsKey, LifecycleAssumption DEF Init, WorkerPC
<1>4. /\ vpc \in [Viewers -> {"idle", "run", "add", "watch"}]
      /\ vkey \in [Viewers -> Keys]
      /\ clients \in [Keys -> SUBSET Viewers]
      /\ unguarded \in [Keys -> Nat]
  BY AnyKeyIsKey DEF Init
<1>5. /\ held \in [op : {"none"} \cup ApiCalls, at : SUBSET Keys, new : SUBSET Keys, od : SUBSET Keys]
      /\ booted \in BOOLEAN /\ down \in BOOLEAN /\ reloads \in Nat
  BY DEF Init, NoCall
<1>6. /\ streams \subseteq Streams /\ conf \subseteq {k \in Keys : k[1] \in streams}
      /\ onDemand \subseteq conf /\ runLock \subseteq conf
      /\ online \subseteq conf /\ fresh \subseteq conf
  BY DEF Init
<1> QED
  BY <1>1, <1>2, <1>3, <1>4, <1>5, <1>6 DEF TypeOK

\* A blocked call changes nothing but `held'.
LEMMA TypeBlocks ==
  ASSUME TypeOK, NEW call, NEW T, Blocks(call, T),
         call \in [op : {"none"} \cup ApiCalls, at : SUBSET Keys, new : SUBSET Keys, od : SUBSET Keys]
  PROVE  TypeOK'
  BY DEF TypeOK, Blocks, registry, workers, viewers, history

\* The calls of the API preserve the types.
LEMMA TypeApi == TypeOK /\ Api => TypeOK'
<1> SUFFICES ASSUME TypeOK, Api PROVE TypeOK'
  OBVIOUS
<1>0. /\ conf \subseteq Keys /\ onDemand \subseteq conf /\ runLock \subseteq conf
      /\ \A s \in Streams : ChannelsOf(s) \subseteq conf
      /\ \A K \in SUBSET Keys : StopTargets(K) \subseteq runLock
      /\ NoCall \in [op : {"none"} \cup ApiCalls, at : SUBSET Keys, new : SUBSET Keys, od : SUBSET Keys]
  BY DEF TypeOK, ChannelsOf, StopTargets, NoCall
<1>1. ASSUME NEW s \in Streams, NEW K \in SUBSET ({s} \X Channels), NEW od \in SUBSET K,
             StreamAdd(s, K, od)
      PROVE  TypeOK'
  <2>1. K \in SUBSET Keys /\ \A k \in K : k[1] = s
    BY StreamChannelSets
  <2>2. /\ Install({}, K, od, K \ od) /\ Spawn(K \ od, {})
        /\ streams' = streams \cup {s}
        /\ UNCHANGED <<sig, viewers, held, booted, down, reloads>>
    BY <1>1 DEF StreamAdd, LocksOf
  <2>3. K \ od \in SUBSET K /\ K \ od \in SUBSET Keys /\ {} \in SUBSET conf
    BY <2>1
  <2>4. WorkersTyped'
    BY <2>2, <2>3, SpawnTypes
  <2>5. RegistryTyped' /\ conf' = conf \cup K
    BY <2>1, <2>2, <2>3, InstallTypes, SMTT(30)
  <2>6. conf' \subseteq {k \in Keys : k[1] \in streams'} /\ streams' \subseteq Streams
    BY <2>1, <2>2, <2>5 DEF TypeOK
  <2> QED
    BY <2>2, <2>4, <2>5, <2>6 DEF TypeOK, RegistryTyped, WorkersTyped, viewers
<1>2. ASSUME NEW s \in Streams, NEW K \in SUBSET ({s} \X Channels), NEW od \in SUBSET K,
             StreamEdit(s, K, od)
      PROVE  TypeOK'
  <2> DEFINE call == [op |-> "StreamEdit", at |-> ChannelsOf(s), new |-> K, od |-> od]
             T == StopTargets(ChannelsOf(s))
  <2>1. K \in SUBSET Keys /\ \A k \in K : k[1] = s
    BY StreamChannelSets
  <2>2. call \in [op : {"none"} \cup ApiCalls, at : SUBSET Keys, new : SUBSET Keys, od : SUBSET Keys]
    BY <1>0, <1>2, <2>1 DEF StreamEdit
  <2>3. CASE Blocks(call, T)
    BY <2>2, <2>3, TypeBlocks
  <2>4. CASE /\ Proceeds(call, T) /\ Send(T, "Stop")
             /\ Install(ChannelsOf(s), K, od, K \ od) /\ Spawn(K \ od, {})
             /\ UNCHANGED <<streams, booted, down, reloads>>
    <3>1. T \in SUBSET conf /\ "Stop" \in Signals
      BY <1>0, ChannelsOf(s) \in SUBSET Keys DEF Signals
    <3>2. /\ K \ od \in SUBSET K /\ K \ od \in SUBSET Keys /\ ChannelsOf(s) \in SUBSET conf
          /\ s \in streams
      BY <1>0, <1>2, <2>1 DEF StreamEdit
    <3>3. sig' \in [Keys -> [1..MaxGen -> Seq(Signals)]]
      BY <2>4, <3>1, SendFacts
    <3>4. WorkersTyped'
      BY <2>4, <3>2, SpawnTypes
    <3>5. RegistryTyped' /\ conf' = (conf \ ChannelsOf(s)) \cup K
      BY <2>1, <2>4, <3>2, InstallTypes
    <3>6. conf' \subseteq {k \in Keys : k[1] \in streams'}
      BY <2>1, <2>4, <3>2, <3>5 DEF TypeOK
    <3> HIDE DEF T, call
    <3> QED
      BY <1>0, <2>4, <3>3, <3>4, <3>5, <3>6 DEF TypeOK, RegistryTyped, WorkersTyped, viewers, Proceeds
  <2> QED
    BY <1>2, <2>3, <2>4 DEF StreamEdit, LocksOf
<1>3. ASSUME NEW s \in Streams, StreamDelete(s)
      PROVE  TypeOK'
  <2> DEFINE call == [op |-> "StreamDelete", at |-> ChannelsOf(s), new |-> {}, od |-> {}]
             T == StopTargets(ChannelsOf(s))
  <2>2. call \in [op : {"none"} \cup ApiCalls, at : SUBSET Keys, new : SUBSET Keys, od : SUBSET Keys]
    BY <1>0, <1>3 DEF StreamDelete
  <2>3. CASE Blocks(call, T)
    BY <2>2, <2>3, TypeBlocks
  <2>4. CASE /\ Proceeds(call, T) /\ Send(T, "Stop")
             /\ Install(ChannelsOf(s), {}, {}, {}) /\ streams' = streams \ {s}
             /\ UNCHANGED <<workers, history>>
    <3>1. T \in SUBSET conf /\ "Stop" \in Signals
      BY <1>0, ChannelsOf(s) \in SUBSET Keys DEF Signals
    <3>2. {} \in SUBSET Keys /\ ChannelsOf(s) \in SUBSET conf
      BY <1>0
    <3>3. sig' \in [Keys -> [1..MaxGen -> Seq(Signals)]]
      BY <2>4, <3>1, SendFacts
    <3>4. conf' \subseteq {k \in Keys : k[1] \in streams'}
      BY <2>4 DEF TypeOK, Install, ChannelsOf
    <3>5. RegistryTyped'
      BY <2>4, <3>2, InstallTypes
    <3>6. streams' \subseteq Streams
      BY <2>4 DEF TypeOK
    <3> HIDE DEF T, call
    <3> QED
      BY <1>0, <2>4, <3>3, <3>4, <3>5, <3>6 DEF TypeOK, RegistryTyped, viewers, workers, history, Proceeds
  <2> QED
    BY <1>3, <2>3, <2>4 DEF StreamDelete
<1>4. ASSUME NEW s \in Streams, StreamReload(s)
      PROVE  TypeOK'
  <2> DEFINE call == [op |-> "StreamReload", at |-> ChannelsOf(s), new |-> {}, od |-> {}]
             T == ChannelsOf(s) \cap runLock
  <2>2. call \in [op : {"none"} \cup ApiCalls, at : SUBSET Keys, new : SUBSET Keys, od : SUBSET Keys]
    BY <1>0, <1>4 DEF StreamReload
  <2>3. CASE Blocks(call, T)
    BY <2>2, <2>3, TypeBlocks
  <2>4. CASE /\ Proceeds(call, T) /\ Send(T, "Restart") /\ reloads' = reloads + 1
             /\ UNCHANGED <<registry, online, fresh, workers, booted, down, unguarded>>
    <3>1. T \in SUBSET conf /\ "Restart" \in Signals
      BY <1>0 DEF Signals
    <3>3. sig' \in [Keys -> [1..MaxGen -> Seq(Signals)]]
      BY <2>4, <3>1, SendFacts
    <3> HIDE DEF T, call
    <3> QED
      BY <1>0, <2>4, <3>3 DEF TypeOK, registry, viewers, workers, Proceeds
  <2> QED
    BY <1>4, <2>3, <2>4 DEF StreamReload
<1>5. ASSUME NEW k \in Keys, NEW od \in SUBSET {k}, ChannelAdd(k, od)
      PROVE  TypeOK'
  <2>2. /\ Install({}, {k}, od, {}) /\ Spawn({k} \ od, {k} \ od)
        /\ k[1] \in streams
        /\ UNCHANGED <<streams, sig, viewers, held, booted, down, reloads>>
    BY <1>5 DEF ChannelAdd
  <2>3. /\ {k} \in SUBSET Keys /\ {k} \ od \in SUBSET Keys /\ {} \in SUBSET conf
        /\ {} \in SUBSET {k}
    OBVIOUS
  <2>4. WorkersTyped'
    BY <2>2, <2>3, SpawnTypes
  <2>5. RegistryTyped' /\ conf' = (conf \ {}) \cup {k}
    BY <2>2, <2>3, InstallTypes
  <2>6. conf' \subseteq {j \in Keys : j[1] \in streams'}
    BY <2>2, <2>5 DEF TypeOK
  <2> QED
    BY <2>2, <2>4, <2>5, <2>6 DEF TypeOK, RegistryTyped, WorkersTyped, viewers
<1>6. ASSUME NEW k \in Keys, NEW od \in SUBSET {k}, ChannelEdit(k, od)
      PROVE  TypeOK'
  <2> DEFINE call == [op |-> "ChannelEdit", at |-> {k}, new |-> {k}, od |-> od]
             T == StopTargets({k})
  <2>2. call \in [op : {"none"} \cup ApiCalls, at : SUBSET Keys, new : SUBSET Keys, od : SUBSET Keys]
    BY <1>0, <1>6 DEF ChannelEdit
  <2>3. CASE Blocks(call, T)
    BY <2>2, <2>3, TypeBlocks
  <2>4. CASE /\ Proceeds(call, T) /\ Send(T, "Stop")
             /\ Install({k}, {k}, od, {}) /\ Spawn({k} \ od, {k} \ od)
             /\ UNCHANGED <<streams, booted, down, reloads>>
    <3>1. T \in SUBSET conf /\ "Stop" \in Signals
      BY <1>0 DEF Signals
    <3>2. {k} \in SUBSET Keys /\ {k} \in SUBSET conf /\ {k} \ od \in SUBSET Keys
      BY <1>6 DEF ChannelEdit
    <3>3. sig' \in [Keys -> [1..MaxGen -> Seq(Signals)]]
      BY <2>4, <3>1, SendFacts
    <3>4. WorkersTyped'
      BY <2>4, <3>2, SpawnTypes
    <3>5. RegistryTyped' /\ conf' = (conf \ {k}) \cup {k}
      BY <2>4, <3>2, InstallTypes
    <3>6. conf' \subseteq {j \in Keys : j[1] \in streams'}
      BY <2>4, <3>2, <3>5 DEF TypeOK
    <3> HIDE DEF T, call
    <3> QED
      BY <1>0, <2>4, <3>3, <3>4, <3>5, <3>6 DEF TypeOK, RegistryTyped, WorkersTyped, viewers, Proceeds
  <2> QED
    BY <1>6, <2>3, <2>4 DEF ChannelEdit
<1>7. ASSUME NEW k \in Keys, ChannelDelete(k)
      PROVE  TypeOK'
  <2> DEFINE call == [op |-> "ChannelDelete", at |-> {k}, new |-> {}, od |-> {}]
             T == StopTargets({k})
  <2>2. call \in [op : {"none"} \cup ApiCalls, at : SUBSET Keys, new : SUBSET Keys, od : SUBSET Keys]
    BY <1>0, <1>7 DEF ChannelDelete
  <2>3. CASE Blocks(call, T)
    BY <2>2, <2>3, TypeBlocks
  <2>4. CASE /\ Proceeds(call, T) /\ Send(T, "Stop")
             /\ Install({k}, {}, {}, {})
             /\ UNCHANGED <<streams, workers, history>>
    <3>1. T \in SUBSET conf /\ "Stop" \in Signals
      BY <1>0 DEF Signals
    <3>2. {} \in SUBSET Keys /\ {} \in SUBSET {} /\ {k} \in SUBSET conf
      BY <1>7 DEF ChannelDelete
    <3>3. sig' \in [Keys -> [1..MaxGen -> Seq(Signals)]]
      BY <2>4, <3>1, SendFacts
    <3>5. RegistryTyped' /\ conf' = (conf \ {k}) \cup {}
      BY <2>4, <3>2, InstallTypes
    <3>6. conf' \subseteq {j \in Keys : j[1] \in streams'}
      BY <2>4, <3>2, <3>5 DEF TypeOK
    <3> HIDE DEF T, call
    <3> QED
      BY <1>0, <2>4, <3>3, <3>5, <3>6 DEF TypeOK, RegistryTyped, viewers, workers, history, Proceeds
  <2> QED
    BY <1>7, <2>3, <2>4 DEF ChannelDelete
<1>8. ASSUME NEW k \in Keys, ChannelReload(k)
      PROVE  TypeOK'
  <2> DEFINE call == [op |-> "ChannelReload", at |-> {k}, new |-> {}, od |-> {}]
  <2>2. call \in [op : {"none"} \cup ApiCalls, at : SUBSET Keys, new : SUBSET Keys, od : SUBSET Keys]
    BY <1>0, <1>8 DEF ChannelReload
  <2>3. CASE Blocks(call, {k})
    BY <2>2, <2>3, TypeBlocks
  <2>4. CASE /\ Proceeds(call, {k}) /\ Send({k}, "Restart") /\ reloads' = reloads + 1
             /\ UNCHANGED <<registry, online, fresh, workers, booted, down, unguarded>>
    <3>1. {k} \in SUBSET conf /\ "Restart" \in Signals
      BY <1>8 DEF Signals, ChannelReload
    <3>3. sig' \in [Keys -> [1..MaxGen -> Seq(Signals)]]
      BY <2>4, <3>1, SendFacts
    <3> HIDE DEF call
    <3> QED
      BY <1>0, <2>4, <3>3 DEF TypeOK, registry, viewers, workers, Proceeds
  <2> QED
    BY <1>8, <2>3, <2>4 DEF ChannelReload
<1>9. ASSUME StopAll
      PROVE  TypeOK'
  <2> DEFINE call == [op |-> "StopAll", at |-> conf, new |-> {}, od |-> {}]
  <2>2. call \in [op : {"none"} \cup ApiCalls, at : SUBSET Keys, new : SUBSET Keys, od : SUBSET Keys]
    BY <1>0, <1>9 DEF StopAll
  <2>3. CASE Blocks(call, runLock)
    BY <2>2, <2>3, TypeBlocks
  <2>4. CASE /\ Proceeds(call, runLock) /\ Send(runLock, "Stop") /\ down' = TRUE
             /\ UNCHANGED <<registry, online, fresh, workers, booted, reloads, unguarded>>
    <3>1. runLock \in SUBSET conf /\ "Stop" \in Signals
      BY <1>0 DEF Signals
    <3>3. sig' \in [Keys -> [1..MaxGen -> Seq(Signals)]]
      BY <2>4, <3>1, SendFacts
    <3> HIDE DEF call
    <3> QED
      BY <1>0, <2>4, <3>3 DEF TypeOK, registry, viewers, workers, Proceeds
  <2> QED
    BY <1>9, <2>3, <2>4 DEF StopAll
<1>10. ASSUME StreamChannelRunAll
       PROVE  TypeOK'
  <2> DEFINE S == conf \ onDemand
  <2>1. Spawn(S, S \cap runLock) /\ S \in SUBSET Keys
    BY <1>0, <1>10 DEF StreamChannelRunAll
  <2>2. runLock' \subseteq conf
    BY <1>0, <1>10 DEF StreamChannelRunAll
  <2>3. /\ booted' = TRUE
        /\ UNCHANGED <<streams, conf, gen, onDemand, clients, online, fresh, sig, viewers,
                       held, down, reloads>>
    BY <1>10 DEF StreamChannelRunAll
  <2>4. WorkersTyped'
    BY <2>1, SpawnTypes
  <2> HIDE DEF S
  <2> QED
    BY <2>2, <2>3, <2>4 DEF TypeOK, WorkersTyped, viewers
<1> QED
  BY <1>1, <1>2, <1>3, <1>4, <1>5, <1>6, <1>7, <1>8, <1>9, <1>10 DEF Api

\* Viewers and the passing of time preserve the types.
LEMMA TypeViewer == TypeOK /\ (\E v \in Viewers : Viewer(v)) => TypeOK'
<1> SUFFICES ASSUME TypeOK, NEW v \in Viewers, Viewer(v) PROVE TypeOK'
  OBVIOUS
<1> USE DEF registry, workers, viewers, history
<1>1. ASSUME NEW k \in Keys, StreamChannelExist(v, k) PROVE TypeOK'
  BY <1>1 DEF TypeOK, StreamChannelExist
<1>2. CASE StreamChannelRun(v)
  <2>1. CASE CanRun(vkey[v])
    <3>1. Spawn({vkey[v]}, {}) /\ {vkey[v]} \in SUBSET Keys
      BY <1>2, <2>1 DEF StreamChannelRun, CanRun, TypeOK
    <3>2. WorkersTyped'
      BY <3>1, SpawnTypes
    <3> QED
      BY <1>2, <2>1, <3>2 DEF TypeOK, StreamChannelRun, CanRun, WorkersTyped
  <2>2. CASE ~CanRun(vkey[v])
    BY <1>2, <2>2 DEF TypeOK, StreamChannelRun
  <2> QED
    BY <2>1, <2>2
<1>3. CASE ClientAdd(v)
  BY <1>3 DEF TypeOK, ClientAdd
<1>4. CASE Leave(v)
  BY <1>4, AnyKeyIsKey DEF TypeOK, Leave
<1> QED
  BY <1>1, <1>2, <1>3, <1>4 DEF Viewer

LEMMA TypeAck == TypeOK /\ (\E k \in Keys : AckExpires(k)) => TypeOK'
  BY DEF TypeOK, AckExpires, registry, workers, viewers, history

LEMMA ExitTypes ==
  ASSUME TypeOK, NEW w \in Workers, Exits(w)
  PROVE  /\ wpc' \in [Workers -> WorkerPC] /\ wkey' \in [Workers -> Keys]
         /\ wopt' \in [Workers -> 0..MaxGen] /\ wod' \in [Workers -> BOOLEAN]
         /\ wret' \in [Workers -> 0..2]
  BY AnyKeyIsKey, LifecycleAssumption DEF TypeOK, Exits, MoveTo, WorkerPC

\* The workers preserve the types.
LEMMA TypeWorker == TypeOK /\ (\E w \in Workers : Worker(w)) => TypeOK'
<1> SUFFICES ASSUME TypeOK, NEW w \in Workers, Worker(w) PROVE TypeOK'
  OBVIOUS
<1> USE DEF registry, workers, viewers, history, MoveTo, Returns, WorkerPC
<1>1. CASE Control(w)
  <2>1. gen[wkey[w]] \in 0..MaxGen
    BY LifecycleAssumption DEF TypeOK
  <2>2. wopt' \in [Workers -> 0..MaxGen] /\ wod' \in [Workers -> BOOLEAN]
        /\ wpc' \in [Workers -> WorkerPC]
    <3>1. CASE wkey[w] \in conf
      <4>1. wpc' = [wpc EXCEPT ![w] = "check"] /\ wopt' = [wopt EXCEPT ![w] = gen[wkey[w]]]
        BY <1>1, <3>1 DEF Control
      <4>2. wod' = [wod EXCEPT ![w] = wkey[w] \in onDemand]
        BY <1>1, <3>1 DEF Control
      <4>3. (wkey[w] \in onDemand) \in BOOLEAN
        OBVIOUS
      <4>4. wod' \in [Workers -> BOOLEAN]
        BY <4>2, <4>3, Zenon DEF TypeOK
      <4> QED
        BY <2>1, <4>1, <4>4 DEF TypeOK
    <3>2. CASE wkey[w] \notin conf
      BY <1>1, <3>2 DEF TypeOK, Control
    <3> QED
      BY <3>1, <3>2
  <2> QED
    BY <1>1, <2>2 DEF TypeOK, Control
<1>2. CASE CheckClients(w)
  BY <1>2 DEF TypeOK, CheckClients
<1>3. CASE DialFails(w)
  BY <1>3 DEF TypeOK, DialFails
<1>4. CASE DialSucceeds(w)
  BY <1>4 DEF TypeOK, DialSucceeds, StatusOnline
<1>5. CASE ClientsTimer(w)
  BY <1>5 DEF TypeOK, ClientsTimer
<1>6. CASE SourceLost(w)
  BY <1>6 DEF TypeOK, SourceLost
<1>7. CASE TakeSignal(w)
  <2>4. sig' \in [Keys -> [1..MaxGen -> Seq(Signals)]]
    BY <1>7, TakeFacts
  <2>5. wpc' \in [Workers -> WorkerPC] /\ wret' \in [Workers -> 0..2]
    <3>1. wpc' = [wpc EXCEPT ![w] = "closing"] /\ wret' = [wret EXCEPT ![w] = wret'[w]]
      BY <1>7 DEF TypeOK, TakeSignal, Obeys
    <3>2. wret'[w] \in 0..2
      BY <1>7 DEF TypeOK, TakeSignal, Obeys
    <3> QED
      BY <3>1, <3>2 DEF TypeOK
  <2>6. UNCHANGED <<registry, online, fresh, wkey, wopt, wod, viewers, held, history>>
    BY <1>7 DEF TakeSignal
  <2> QED
    BY <2>4, <2>5, <2>6 DEF TypeOK
<1>8. CASE Packet(w)
  BY <1>8 DEF TypeOK, Packet
<1>9. CASE Cast(w)
  BY <1>9 DEF TypeOK, Cast
<1>10. CASE CloseSession(w)
  <2>1. online' \subseteq conf
    BY <1>10 DEF TypeOK, CloseSession, StatusOffline
  <2>2. /\ wpc' \in [Workers -> WorkerPC] /\ wkey' \in [Workers -> Keys]
        /\ wopt' \in [Workers -> 0..MaxGen] /\ wod' \in [Workers -> BOOLEAN]
        /\ wret' \in [Workers -> 0..2]
    <3>1. CASE wret[w] = 2
      <4>1. Exits(w)
        BY <1>10, <3>1 DEF CloseSession
      <4> QED
        BY <4>1, ExitTypes
    <3>2. CASE wret[w] # 2
      <4>1. wpc' = [wpc EXCEPT ![w] = IF wret[w] = 1 THEN "unlock" ELSE "sleep"]
            /\ UNCHANGED <<wkey, wopt, wod, wret>>
        BY <1>10, <3>2 DEF CloseSession
      <4> QED
        BY <4>1 DEF TypeOK
    <3> QED
      BY <3>1, <3>2
  <2> QED
    BY <1>10, <2>1, <2>2 DEF TypeOK, CloseSession
<1>11. CASE Wake(w)
  BY <1>11 DEF TypeOK, Wake
<1>12. CASE StreamChannelUnlock(w)
  BY <1>12, AnyKeyIsKey, LifecycleAssumption, SMTT(30) DEF TypeOK, StreamChannelUnlock, Exits
<1>13. CASE OpenMuxer(w)
  BY <1>13 DEF TypeOK, OpenMuxer
<1> QED
  BY <1>1, <1>2, <1>3, <1>4, <1>5, <1>6, <1>7, <1>8, <1>9, <1>10, <1>11, <1>12, <1>13 DEF Worker

LEMMA TypeNext == TypeOK /\ [Next]_vars => TypeOK'
<1>1. TypeOK /\ UNCHANGED vars => TypeOK'
  BY DEF TypeOK, vars, registry, workers, viewers, history
<1> QED
  BY <1>1, TypeApi, TypeViewer, TypeAck, TypeWorker DEF Next

\* Every reachable state is well typed: in particular what is locked, ONLINE, on demand
\* or recently asked for is a configured channel, and no incarnation exceeds the bound.
THEOREM TypeCorrect == Spec => []TypeOK
<1>1. Init => TypeOK
  BY TypeInit
<1>2. TypeOK /\ [Next]_vars => TypeOK'
  BY TypeNext
<1> QED
  BY <1>1, <1>2, PTL DEF Spec
-----------------------------------------------------------------------------
(* What runLock guarantees: SingleWorker, WorkerBudget, OnlineMeansSession. *)

(* How the steps of the model change the set of workers of a channel.      *)

LEMMA AliveSpawn ==
  ASSUME TypeOK, NEW S \in SUBSET Keys, NEW U, Spawn(S, U), NEW k \in Keys
  PROVE  /\ k \notin S => Alive(k)' = Alive(k)
         /\ k \in S => Alive(k)' # {} /\ \E w : Alive(k)' = Alive(k) \cup {w}
         /\ k \in S /\ Alive(k) = {} => \A v, w \in Alive(k)' : v = w
         /\ Alive(k) \subseteq Alive(k)'
<1>1. \A w \in Workers : wpc[w] # "free" => wpc'[w] = wpc[w] /\ wkey'[w] = wkey[w]
  BY SpawnFacts
<1>2. \A w \in Workers : wpc[w] = "free" =>
        \/ wpc'[w] = "free" /\ wkey'[w] = wkey[w]
        \/ wpc'[w] = "control" /\ wkey'[w] \in S
  BY SpawnFacts
<1>3. k \in S => \E w \in Workers : wpc[w] = "free" /\ wpc'[w] = "control" /\ wkey'[w] = k
  BY SpawnFacts, ZenonT(40)
<1>4. \A v, w \in Workers :
        /\ wpc[v] = "free" /\ wpc'[v] = "control"
        /\ wpc[w] = "free" /\ wpc'[w] = "control"
        /\ wkey'[v] = wkey'[w]
        => v = w
  BY SpawnFacts
<1>5. Alive(k) \subseteq Alive(k)'
  BY <1>1 DEF Alive
<1>6. k \notin S => Alive(k)' \subseteq Alive(k)
  BY <1>1, <1>2 DEF Alive
<1>7. k \in S => Alive(k)' # {}
  BY <1>3 DEF Alive
<1>9. ASSUME k \in S
      PROVE  \E w : Alive(k)' = Alive(k) \cup {w}
  <2>1. PICK w \in Workers : wpc[w] = "free" /\ wpc'[w] = "control" /\ wkey'[w] = k
    BY <1>3, <1>9
  <2>2. \A v \in Alive(k)' : v \in Alive(k) \/ v = w
    BY <1>1, <1>2, <1>4, <2>1 DEF Alive
  <2>3. w \in Alive(k)'
    BY <2>1 DEF Alive
  <2> QED
    BY <1>5, <2>2, <2>3
<1>8. ASSUME k \in S, Alive(k) = {}, NEW v \in Alive(k)', NEW w \in Alive(k)'
      PROVE  v = w
  <2>1. /\ v \in Workers /\ wpc'[v] # "free" /\ wkey'[v] = k
        /\ w \in Workers /\ wpc'[w] # "free" /\ wkey'[w] = k
    BY DEF Alive
  <2>2. wpc[v] = "free" /\ wpc[w] = "free"
    BY <1>1, <1>8, <2>1 DEF Alive
  <2> QED
    BY <1>2, <1>4, <2>1, <2>2
<1> QED
  BY <1>5, <1>6, <1>7, <1>8, <1>9

LEMMA AliveMove ==
  ASSUME TypeOK, NEW w \in Workers, NEW pc, MoveTo(w, pc), wpc[w] # "free", pc # "free",
         wkey' = wkey, NEW k \in Keys
  PROVE  Alive(k)' = Alive(k)
  BY DEF TypeOK, MoveTo, Alive

LEMMA AliveExit ==
  ASSUME TypeOK, NEW w \in Workers, Exits(w), NEW k \in Keys
  PROVE  Alive(k)' = Alive(k) \ {w}
  BY DEF TypeOK, Exits, MoveTo, Alive
-----------------------------------------------------------------------------
\* All that a step does to channels, locks and sets of workers is one of five things.
LocksKept ==
  /\ UNCHANGED <<conf, gen, runLock, unguarded>>
  /\ \A k \in Keys : Alive(k)' \subseteq Alive(k)
LocksInstalled ==
  \E R \in SUBSET conf, K \in SUBSET Keys : \E od, L, S, U \in SUBSET K :
    /\ K \cap conf \subseteq R /\ S \subseteq L \cup U
    /\ Install(R, K, od, L) /\ Spawn(S, U)
LocksRemoved ==
  \E R \in SUBSET conf : Install(R, {}, {}, {}) /\ UNCHANGED <<workers, unguarded>>
LocksTaken ==
  \E S \in SUBSET conf :
    Spawn(S, S \cap runLock) /\ runLock' = runLock \cup S /\ UNCHANGED <<conf, gen>>
LockReleased ==
  \E w \in Workers :
    /\ w \in Alive(wkey[w]) /\ runLock' = runLock \ {wkey[w]}
    /\ \A k \in Keys : Alive(k)' = Alive(k) \ {w}
    /\ UNCHANGED <<conf, gen, unguarded>>
LockStep == LocksKept \/ LocksInstalled \/ LocksRemoved \/ LocksTaken \/ LockReleased

LEMMA StepKept ==
  ASSUME UNCHANGED <<conf, gen, runLock, unguarded>>,
         \A k \in Keys : Alive(k)' \subseteq Alive(k)
  PROVE  LockStep
  BY DEF LockStep, LocksKept

LEMMA StepInstall ==
  ASSUME NEW R \in SUBSET conf, NEW K \in SUBSET Keys, K \cap conf \subseteq R,
         NEW od \in SUBSET K, NEW L \in SUBSET K, Install(R, K, od, L),
         NEW S \in SUBSET K, NEW U \in SUBSET K, S \subseteq L \cup U, Spawn(S, U)
  PROVE  LockStep
<1>1. LocksInstalled
  BY DEF LocksInstalled
<1> QED
  BY <1>1 DEF LockStep

LEMMA StepRemove ==
  ASSUME NEW R \in SUBSET conf, Install(R, {}, {}, {}), UNCHANGED <<workers, unguarded>>
  PROVE  LockStep
<1>1. LocksRemoved
  BY DEF LocksRemoved
<1> QED
  BY <1>1 DEF LockStep

LEMMA StepStart ==
  ASSUME NEW S \in SUBSET conf, Spawn(S, S \cap runLock),
         UNCHANGED <<conf, gen>>, runLock' = runLock \cup S
  PROVE  LockStep
<1>1. LocksTaken
  BY DEF LocksTaken
<1> QED
  BY <1>1 DEF LockStep

LEMMA LockStepApi == TypeOK /\ Api => LockStep
<1> SUFFICES ASSUME TypeOK, Api PROVE LockStep
  OBVIOUS
<1>0. /\ TypeOK /\ runLock \subseteq conf /\ onDemand \subseteq conf
      /\ conf \subseteq {k \in Keys : k[1] \in streams}
      /\ \A s \in Streams : ChannelsOf(s) \in SUBSET conf
      /\ {} \in SUBSET conf /\ {} \in SUBSET {}
  BY DEF TypeOK, ChannelsOf
<1>b. ASSUME NEW call, NEW T, Blocks(call, T) PROVE LockStep
  <2>1. \A k \in Keys : Alive(k)' = Alive(k)
    BY <1>b DEF Blocks, workers, Alive
  <2> QED
    BY <1>b, <2>1, StepKept DEF Blocks, registry, history
<1>s. ASSUME UNCHANGED <<registry, workers, unguarded>> PROVE LockStep
  <2>1. \A k \in Keys : Alive(k)' = Alive(k)
    BY <1>s DEF workers, Alive
  <2> QED
    BY <1>s, <2>1, StepKept DEF registry
<1>1. ASSUME NEW s \in Streams, NEW K \in SUBSET ({s} \X Channels), NEW od \in SUBSET K,
             StreamAdd(s, K, od)
      PROVE  LockStep
  <2>1. K \in SUBSET Keys /\ \A k \in K : k[1] = s
    BY StreamChannelSets
  <2>2. Install({}, K, od, K \ od) /\ Spawn(K \ od, {}) /\ s \notin streams
    BY <1>1 DEF StreamAdd, LocksOf
  <2>3. K \cap conf \subseteq {} /\ K \ od \in SUBSET K /\ {} \in SUBSET K
    BY <1>0, <2>1, <2>2
  <2>4. K \ od \subseteq (K \ od) \cup {}
    OBVIOUS
  <2> QED
    BY <1>0, <2>1, <2>2, <2>3, <2>4, StepInstall
<1>2. ASSUME NEW s \in Streams, NEW K \in SUBSET ({s} \X Channels), NEW od \in SUBSET K,
             StreamEdit(s, K, od)
      PROVE  LockStep
  <2> DEFINE call == [op |-> "StreamEdit", at |-> ChannelsOf(s), new |-> K, od |-> od]
             T == StopTargets(ChannelsOf(s))
  <2>1. K \in SUBSET Keys /\ \A k \in K : k[1] = s
    BY StreamChannelSets
  <2>2. CASE Blocks(call, T)
    BY <1>b, <2>2
  <2>3. CASE Install(ChannelsOf(s), K, od, K \ od) /\ Spawn(K \ od, {})
    <3>1. K \cap conf \subseteq ChannelsOf(s) /\ K \ od \in SUBSET K /\ {} \in SUBSET K
      BY <2>1 DEF ChannelsOf
    <3>2. K \ od \subseteq (K \ od) \cup {}
      OBVIOUS
    <3> QED
      BY <1>0, <2>1, <2>3, <3>1, <3>2, StepInstall
  <2> QED
    BY <1>2, <2>2, <2>3 DEF StreamEdit, LocksOf
<1>3. ASSUME NEW s \in Streams, StreamDelete(s)
      PROVE  LockStep
  <2> DEFINE call == [op |-> "StreamDelete", at |-> ChannelsOf(s), new |-> {}, od |-> {}]
             T == StopTargets(ChannelsOf(s))
  <2>1. CASE Blocks(call, T)
    BY <1>b, <2>1
  <2>2. CASE Install(ChannelsOf(s), {}, {}, {}) /\ UNCHANGED <<workers, unguarded>>
    BY <1>0, <2>2, StepRemove
  <2> QED
    BY <1>3, <2>1, <2>2 DEF StreamDelete, history
<1>4. ASSUME NEW s \in Streams, StreamReload(s)
      PROVE  LockStep
  BY <1>4, <1>b, <1>s DEF StreamReload
<1>5. ASSUME NEW k \in Keys, NEW od \in SUBSET {k}, ChannelAdd(k, od)
      PROVE  LockStep
  <2>1. Install({}, {k}, od, {}) /\ Spawn({k} \ od, {k} \ od) /\ k \notin conf
    BY <1>5 DEF ChannelAdd
  <2>2. /\ {k} \in SUBSET Keys /\ {k} \cap conf \subseteq {} /\ {} \in SUBSET {k}
        /\ {k} \ od \in SUBSET {k} /\ {k} \ od \subseteq {} \cup ({k} \ od)
    BY <2>1
  <2> QED
    BY <1>0, <2>1, <2>2, StepInstall
<1>6. ASSUME NEW k \in Keys, NEW od \in SUBSET {k}, ChannelEdit(k, od)
      PROVE  LockStep
  <2> DEFINE call == [op |-> "ChannelEdit", at |-> {k}, new |-> {k}, od |-> od]
             T == StopTargets({k})
  <2>1. CASE Blocks(call, T)
    BY <1>b, <2>1
  <2>2. CASE Install({k}, {k}, od, {}) /\ Spawn({k} \ od, {k} \ od)
    <3>1. /\ {k} \in SUBSET Keys /\ {k} \in SUBSET conf /\ {k} \cap conf \subseteq {k}
          /\ {} \in SUBSET {k}
          /\ {k} \ od \in SUBSET {k} /\ {k} \ od \subseteq {} \cup ({k} \ od)
      BY <1>6 DEF ChannelEdit
    <3> QED
      BY <2>2, <3>1, StepInstall
  <2> QED
    BY <1>6, <2>1, <2>2 DEF ChannelEdit
<1>7. ASSUME NEW k \in Keys, ChannelDelete(k)
      PROVE  LockStep
  <2> DEFINE call == [op |-> "ChannelDelete", at |-> {k}, new |-> {}, od |-> {}]
             T == StopTargets({k})
  <2>1. CASE Blocks(call, T)
    BY <1>b, <2>1
  <2>2. CASE Install({k}, {}, {}, {}) /\ UNCHANGED <<workers, unguarded>>
    <3>1. {k} \in SUBSET conf
      BY <1>7 DEF ChannelDelete
    <3> QED
      BY <2>2, <3>1, StepRemove
  <2> QED
    BY <1>7, <2>1, <2>2 DEF ChannelDelete, history
<1>8. ASSUME NEW k \in Keys, ChannelReload(k)
      PROVE  LockStep
  BY <1>8, <1>b, <1>s DEF ChannelReload
<1>9. ASSUME StopAll
      PROVE  LockStep
  BY <1>9, <1>b, <1>s DEF StopAll
<1>10. ASSUME StreamChannelRunAll
       PROVE  LockStep
  <2> DEFINE S == conf \ onDemand
  <2>1. /\ S \in SUBSET conf /\ Spawn(S, S \cap runLock) /\ runLock' = runLock \cup S
        /\ UNCHANGED <<conf, gen>>
    BY <1>10 DEF StreamChannelRunAll
  <2> HIDE DEF S
  <2> QED
    BY <2>1, StepStart
<1> QED
  BY <1>1, <1>2, <1>3, <1>4, <1>5, <1>6, <1>7, <1>8, <1>9, <1>10 DEF Api

LEMMA LockStepViewer == TypeOK /\ (\E v \in Viewers : Viewer(v)) => LockStep
<1> SUFFICES ASSUME TypeOK, NEW v \in Viewers, Viewer(v) PROVE LockStep
  OBVIOUS
<1>s. ASSUME UNCHANGED <<conf, gen, runLock, workers, unguarded>> PROVE LockStep
  <2>1. \A k \in Keys : Alive(k)' = Alive(k)
    BY <1>s DEF workers, Alive
  <2> QED
    BY <1>s, <2>1, StepKept
<1>1. ASSUME NEW k \in Keys, StreamChannelExist(v, k) PROVE LockStep
  BY <1>1, <1>s DEF StreamChannelExist, registry, history
<1>2. CASE StreamChannelRun(v)
  <2> DEFINE S == {vkey[v]}
  <2>1. CASE CanRun(vkey[v])
    <3>1. /\ S \in SUBSET conf /\ Spawn(S, {}) /\ S \cap runLock = {}
          /\ runLock' = runLock \cup S /\ UNCHANGED <<conf, gen>>
      BY <1>2, <2>1 DEF StreamChannelRun, CanRun
    <3> HIDE DEF S
    <3> QED
      BY <3>1, StepStart
  <2>2. CASE ~CanRun(vkey[v])
    BY <1>2, <1>s, <2>2 DEF StreamChannelRun
  <2> QED
    BY <2>1, <2>2
<1>3. CASE ClientAdd(v)
  BY <1>3, <1>s DEF ClientAdd, history
<1>4. CASE Leave(v)
  BY <1>4, <1>s DEF Leave, history
<1> QED
  BY <1>1, <1>2, <1>3, <1>4 DEF Viewer

LEMMA LockStepWorker == TypeOK /\ (\E w \in Workers : Worker(w)) => LockStep
<1> SUFFICES ASSUME TypeOK, NEW w \in Workers, Worker(w) PROVE LockStep
  OBVIOUS
<1>m. ASSUME NEW pc, MoveTo(w, pc), wpc[w] # "free", pc # "free",
             UNCHANGED <<conf, gen, runLock, unguarded, wkey>>
      PROVE  LockStep
  BY <1>m, AliveMove, StepKept
<1> USE DEF registry, history
<1>1. CASE Control(w)
  <2>1. UNCHANGED <<conf, gen, runLock, unguarded, wkey>> /\ wpc[w] # "free"
    BY <1>1 DEF Control
  <2>2. MoveTo(w, "check") \/ MoveTo(w, "unlock")
    BY <1>1 DEF Control
  <2> QED
    BY <1>m, <2>1, <2>2
<1>2. CASE CheckClients(w)
  BY <1>2, <1>m DEF CheckClients
<1>3. CASE DialFails(w)
  BY <1>3, <1>m DEF DialFails
<1>4. CASE DialSucceeds(w)
  BY <1>4, <1>m DEF DialSucceeds
<1>5. CASE ClientsTimer(w)
  BY <1>5, <1>m DEF ClientsTimer, Returns
<1>6. CASE SourceLost(w)
  BY <1>6, <1>m DEF SourceLost, Returns
<1>7. CASE TakeSignal(w)
  BY <1>7, <1>m DEF TakeSignal, Obeys, Returns
<1>8. CASE Packet(w)
  BY <1>8, <1>m DEF Packet
<1>9. CASE Cast(w)
  BY <1>9, <1>m DEF Cast
<1>10. CASE CloseSession(w)
  <2>1. UNCHANGED <<conf, gen, runLock, unguarded>> /\ wpc[w] # "free"
    BY <1>10 DEF CloseSession
  <2>2. CASE wret[w] = 2
    <3>1. Exits(w)
      BY <1>10, <2>2 DEF CloseSession
    <3>2. \A k \in Keys : Alive(k)' \subseteq Alive(k)
      BY <3>1, AliveExit
    <3> QED
      BY <2>1, <3>2, StepKept
  <2>3. CASE wret[w] # 2
    <3>1. UNCHANGED wkey /\ (MoveTo(w, "unlock") \/ MoveTo(w, "sleep"))
      BY <1>10, <2>3 DEF CloseSession
    <3> QED
      BY <1>m, <2>1, <3>1
  <2> QED
    BY <2>2, <2>3
<1>11. CASE Wake(w)
  BY <1>11, <1>m DEF Wake
<1>12. CASE StreamChannelUnlock(w)
  <2>1. \A k \in Keys : Alive(k)' = Alive(k) \ {w}
    BY <1>12, AliveExit DEF StreamChannelUnlock
  <2>2. w \in Alive(wkey[w]) /\ runLock' = runLock \ {wkey[w]} /\ UNCHANGED <<conf, gen, unguarded>>
    BY <1>12 DEF StreamChannelUnlock, Alive
  <2>3. LockReleased
    BY <2>1, <2>2 DEF LockReleased
  <2> QED
    BY <2>3 DEF LockStep
<1>13. CASE OpenMuxer(w)
  BY <1>13, <1>m DEF OpenMuxer
<1> QED
  BY <1>1, <1>2, <1>3, <1>4, <1>5, <1>6, <1>7, <1>8, <1>9, <1>10, <1>11, <1>12, <1>13 DEF Worker

LEMMA LockSteps == TypeOK /\ [Next]_vars => LockStep
<1> SUFFICES ASSUME TypeOK, [Next]_vars PROVE LockStep
  OBVIOUS
<1>2. ASSUME UNCHANGED <<conf, gen, runLock, workers, unguarded>> PROVE LockStep
  <2>1. \A k \in Keys : Alive(k)' = Alive(k)
    BY <1>2 DEF workers, Alive
  <2> QED
    BY <1>2, <2>1, StepKept
<1>3. CASE UNCHANGED vars
  BY <1>2, <1>3 DEF vars, registry, history
<1>4. ASSUME NEW k \in Keys, AckExpires(k) PROVE LockStep
  BY <1>2, <1>4 DEF AckExpires, registry, history
<1> QED
  BY <1>3, <1>4, LockStepApi, LockStepViewer, LockStepWorker DEF Next
-----------------------------------------------------------------------------
(* One worker per channel.                                                 *)

\* SingleWorker becomes inductive with this: a channel never configured has no worker,
\* so that its first configuration starts the only one.
NoEarlyWorker == \A k \in Keys : gen[k] = 0 => Alive(k) = {}

LockInv == TypeOK /\ NoEarlyWorker /\ SingleWorker

LEMMA LockInit == Init => LockInv
<1> SUFFICES ASSUME Init PROVE LockInv
  OBVIOUS
<1>1. \A k \in Keys : Alive(k) = {}
  BY DEF Init, Alive
<1> QED
  BY <1>1, TypeInit DEF LockInv, NoEarlyWorker, SingleWorker

\* A step that keeps the registry and lets workers only go keeps the invariant.
LEMMA LockKept ==
  ASSUME LockInv, TypeOK', UNCHANGED <<conf, gen, runLock, unguarded>>,
         \A k \in Keys : Alive(k)' \subseteq Alive(k)
  PROVE  LockInv'
  BY DEF LockInv, NoEarlyWorker, SingleWorker

\* (Re)configuring channels keeps it, if every worker started is of a new channel and
\* either that channel is stored locked or the start counts as unguarded.
LEMMA LockInstall ==
  ASSUME LockInv, TypeOK', NEW R \in SUBSET conf, NEW K \in SUBSET Keys, K \cap conf \subseteq R,
         NEW od, NEW L \in SUBSET K, Install(R, K, od, L),
         NEW S \in SUBSET K, NEW U \in SUBSET K, S \subseteq L \cup U, Spawn(S, U)
  PROVE  LockInv'
<1>0. TypeOK
  BY DEF LockInv
<1>1. ASSUME NEW k \in Keys, k \in K
      PROVE  /\ gen'[k] # 0
             /\ gen'[k] = 1 /\ unguarded'[k] = 0 =>
                  /\ \A v, w \in Alive(k)' : v = w
                  /\ Alive(k)' # {} /\ k \in conf' => k \in runLock'
  <2>1. gen'[k] = gen[k] + 1 /\ gen[k] \in Nat
    BY <1>0, <1>1 DEF Install, TypeOK
  <2>2. SUFFICES ASSUME gen'[k] = 1, unguarded'[k] = 0
                 PROVE  /\ \A v, w \in Alive(k)' : v = w
                        /\ Alive(k)' # {} => k \in runLock'
    BY <2>1
  <2>3. Alive(k) = {}
    BY <2>1, <2>2 DEF LockInv, NoEarlyWorker
  <2>4. k \in U => unguarded'[k] = unguarded[k] + 1 /\ unguarded[k] \in Nat
    BY <1>0 DEF Spawn, TypeOK
  <2>5. k \notin U
    BY <2>2, <2>4
  <2>6. /\ k \notin S => Alive(k)' = Alive(k)
        /\ k \in S => \A v, w \in Alive(k)' : v = w
    BY <1>0, <2>3, AliveSpawn
  <2>7. k \in S => k \in runLock'
    BY <2>5 DEF Install
  <2> QED
    BY <2>3, <2>6, <2>7
<1>2. ASSUME NEW k \in Keys, k \notin K
      PROVE  /\ gen'[k] = 0 => Alive(k)' = {}
             /\ gen'[k] = 1 /\ unguarded'[k] = 0 =>
                  /\ \A v, w \in Alive(k)' : v = w
                  /\ Alive(k)' # {} /\ k \in conf' => k \in runLock'
  <2>1. gen'[k] = gen[k] /\ (k \in conf' => k \in conf \ R)
    BY <1>2 DEF Install
  <2>2. unguarded'[k] = unguarded[k]
    BY <1>2 DEF Spawn
  <2>3. Alive(k)' = Alive(k)
    BY <1>0, <1>2, AliveSpawn
  <2>4. k \in conf' /\ k \in runLock => k \in runLock'
    BY <2>1 DEF Install
  <2> QED
    BY <2>1, <2>2, <2>3, <2>4 DEF LockInv, NoEarlyWorker, SingleWorker
<1>3. NoEarlyWorker'
  BY <1>1, <1>2 DEF NoEarlyWorker
<1>4. SingleWorker'
  BY <1>1, <1>2 DEF SingleWorker
<1> QED
  BY <1>3, <1>4 DEF LockInv

\* Channels that leave the registry take nothing with them that the lock protects.
LEMMA LockRemove ==
  ASSUME LockInv, TypeOK', NEW R \in SUBSET conf, NEW od, Install(R, {}, od, {}),
         UNCHANGED <<workers, unguarded>>
  PROVE  LockInv'
<1>1. \A k \in Keys : Alive(k)' = Alive(k) /\ unguarded'[k] = unguarded[k]
  BY DEF Alive, workers
<1>2. \A k \in Keys : gen'[k] = gen[k]
  BY DEF Install
<1>3. \A k \in Keys : k \in conf' => k \in conf /\ (k \in runLock => k \in runLock')
  BY DEF Install
<1> QED
  BY <1>1, <1>2, <1>3 DEF LockInv, NoEarlyWorker, SingleWorker

\* Taking the free locks of channels and starting their workers.
LEMMA LockStart ==
  ASSUME LockInv, TypeOK', NEW S \in SUBSET conf, Spawn(S, S \cap runLock),
         UNCHANGED <<conf, gen>>, runLock' = runLock \cup S
  PROVE  LockInv'
<1>0. TypeOK /\ S \in SUBSET Keys
  BY DEF LockInv, TypeOK
<1>1. ASSUME NEW k \in Keys, k \in S
      PROVE  /\ gen'[k] # 0
             /\ gen'[k] = 1 /\ unguarded'[k] = 0 =>
                  (\A v, w \in Alive(k)' : v = w) /\ k \in runLock'
  <2>1. gen'[k] = gen[k] /\ gen[k] # 0
    BY <1>0, <1>1 DEF TypeOK
  <2>2. SUFFICES ASSUME gen'[k] = 1, unguarded'[k] = 0
                 PROVE  \A v, w \in Alive(k)' : v = w
    BY <1>1, <2>1
  <2>3. /\ unguarded[k] \in Nat
        /\ unguarded'[k] = IF k \in runLock THEN unguarded[k] + 1 ELSE unguarded[k]
    BY <1>0, <1>1 DEF TypeOK, Spawn
  <2>4. k \notin runLock /\ unguarded[k] = 0
    BY <2>2, <2>3
  <2>5. Alive(k) = {}
    BY <1>1, <2>1, <2>2, <2>4 DEF LockInv, SingleWorker
  <2> QED
    BY <1>0, <1>1, <2>5, AliveSpawn
<1>2. ASSUME NEW k \in Keys, k \notin S
      PROVE  /\ Alive(k)' = Alive(k) /\ gen'[k] = gen[k] /\ unguarded'[k] = unguarded[k]
             /\ k \in runLock' <=> k \in runLock
  <2>1. Alive(k)' = Alive(k)
    BY <1>0, <1>2, AliveSpawn
  <2>2. unguarded'[k] = unguarded[k]
    BY <1>2 DEF Spawn
  <2> QED
    BY <1>2, <2>1, <2>2
<1>3. NoEarlyWorker'
  BY <1>1, <1>2 DEF LockInv, NoEarlyWorker
<1>4. SingleWorker'
  BY <1>1, <1>2 DEF LockInv, SingleWorker
<1> QED
  BY <1>3, <1>4 DEF LockInv

LEMMA LockRelease ==
  ASSUME LockInv, TypeOK', LockReleased
  PROVE  LockInv'
<1>1. PICK w \in Workers :
        /\ w \in Alive(wkey[w]) /\ runLock' = runLock \ {wkey[w]}
        /\ \A k \in Keys : Alive(k)' = Alive(k) \ {w}
        /\ UNCHANGED <<conf, gen, unguarded>>
  BY DEF LockReleased
<1>2. NoEarlyWorker'
  BY <1>1 DEF LockInv, NoEarlyWorker
<1>3. ASSUME NEW k \in Keys, gen'[k] = 1, unguarded'[k] = 0
      PROVE  /\ \A x, y \in Alive(k)' : x = y
             /\ Alive(k)' # {} /\ k \in conf' => k \in runLock'
  <2>1. /\ \A x, y \in Alive(k) : x = y
        /\ Alive(k) # {} /\ k \in conf => k \in runLock
    BY <1>1, <1>3 DEF LockInv, SingleWorker
  <2>2. k = wkey[w] => Alive(k)' = {}
    BY <1>1, <2>1
  <2> QED
    BY <1>1, <2>1, <2>2
<1>4. SingleWorker'
  BY <1>3 DEF SingleWorker
<1> QED
  BY <1>2, <1>4 DEF LockInv

LEMMA LockNext == LockInv /\ [Next]_vars => LockInv'
<1> SUFFICES ASSUME LockInv, [Next]_vars PROVE LockInv'
  OBVIOUS
<1>1. TypeOK' /\ LockStep
  BY TypeNext, LockSteps DEF LockInv
<1>2. CASE LocksKept
  BY <1>1, <1>2, LockKept DEF LocksKept
<1>3. CASE LocksInstalled
  BY <1>1, <1>3, LockInstall DEF LocksInstalled
<1>4. CASE LocksRemoved
  BY <1>1, <1>4, LockRemove DEF LocksRemoved
<1>5. CASE LocksTaken
  BY <1>1, <1>5, LockStart DEF LocksTaken
<1>6. CASE LockReleased
  BY <1>1, <1>6, LockRelease
<1> QED
  BY <1>1, <1>2, <1>3, <1>4, <1>5, <1>6 DEF LockStep

\* runLock keeps the goroutine of a channel unique, as long as the channel is configured
\* once and every worker took the free lock; and such a worker holds the lock.
THEOREM SingleWorkerCorrect == Spec => []SingleWorker
<1>1. Init => LockInv
  BY LockInit
<1>2. LockInv /\ [Next]_vars => LockInv'
  BY LockNext
<1>3. LockInv => SingleWorker
  BY DEF LockInv
<1> QED
  BY <1>1, <1>2, <1>3, PTL DEF Spec
-----------------------------------------------------------------------------
(* As many workers as configurations and unguarded starts.                 *)

\* Workers is any set; that those of a channel are finite in number is part of the invariant.
FiniteAlive == \A k \in Keys : IsFiniteSet(Alive(k))

BudgetInv == TypeOK /\ FiniteAlive /\ WorkerBudget

\* A free lock counts as the worker that StreamChannelRun may start.
Startable(k) == IF k \in conf \ runLock THEN 1 ELSE 0

LEMMA BudgetOf ==
  ASSUME FiniteAlive,
         \A k \in Keys : Cardinality(Alive(k)) + Startable(k) <= gen[k] + unguarded[k]
  PROVE  FiniteAlive /\ WorkerBudget
  BY DEF WorkerBudget, Startable

LEMMA BudgetHere ==
  ASSUME BudgetInv, NEW k \in Keys
  PROVE  /\ IsFiniteSet(Alive(k)) /\ Cardinality(Alive(k)) \in Nat
         /\ gen[k] \in Nat /\ unguarded[k] \in Nat
         /\ Cardinality(Alive(k)) + Startable(k) <= gen[k] + unguarded[k]
<1>1. IsFiniteSet(Alive(k))
  BY DEF BudgetInv, FiniteAlive
<1> QED
  BY <1>1, FS_CardinalityType DEF BudgetInv, WorkerBudget, Startable, TypeOK

LEMMA BudgetInit == Init => BudgetInv
<1> SUFFICES ASSUME Init PROVE BudgetInv
  OBVIOUS
<1>1. \A k \in Keys : Alive(k) = {}
  BY DEF Init, Alive
<1>2. FiniteAlive
  BY <1>1, FS_EmptySet DEF FiniteAlive
<1>3. ASSUME NEW k \in Keys
      PROVE  Cardinality(Alive(k)) + Startable(k) <= gen[k] + unguarded[k]
  <2>1. Cardinality(Alive(k)) = 0
    BY <1>1, FS_EmptySet
  <2>2. gen[k] = (IF k \in conf THEN 1 ELSE 0) /\ unguarded[k] = 0
    BY DEF Init
  <2> QED
    BY <2>1, <2>2 DEF Startable
<1> QED
  BY <1>2, <1>3, BudgetOf, TypeInit DEF BudgetInv

\* One worker more at most, where one is started.
LEMMA CountSpawn ==
  ASSUME BudgetInv, NEW S \in SUBSET Keys, NEW U, Spawn(S, U), NEW k \in Keys
  PROVE  /\ IsFiniteSet(Alive(k)')
         /\ Cardinality(Alive(k)') \in Nat
         /\ Cardinality(Alive(k)') <= Cardinality(Alive(k)) + (IF k \in S THEN 1 ELSE 0)
         /\ unguarded'[k] = unguarded[k] + (IF k \in U THEN 1 ELSE 0)
<1>1. IsFiniteSet(Alive(k)) /\ Cardinality(Alive(k)) \in Nat /\ unguarded[k] \in Nat
  BY BudgetHere
<1>2. TypeOK
  BY DEF BudgetInv
<1>3. unguarded'[k] = unguarded[k] + (IF k \in U THEN 1 ELSE 0)
  BY <1>1 DEF Spawn
<1>4. CASE k \notin S
  BY <1>1, <1>2, <1>3, <1>4, AliveSpawn
<1>5. CASE k \in S
  <2>1. PICK w : Alive(k)' = Alive(k) \cup {w}
    BY <1>2, <1>5, AliveSpawn
  <2> DEFINE A == Alive(k)
  <2>2. /\ IsFiniteSet(A \cup {w})
        /\ Cardinality(A \cup {w}) = IF w \in A THEN Cardinality(A) ELSE Cardinality(A) + 1
    <3> HIDE DEF A
    <3>1. IsFiniteSet(A)
      BY <1>1 DEF A
    <3> QED
      BY <3>1, FS_AddElement
  <2>3. Cardinality(A \cup {w}) \in Nat /\ Cardinality(A \cup {w}) <= Cardinality(A) + 1
    BY <1>1, <2>2
  <2> QED
    BY <1>3, <1>5, <2>1, <2>2, <2>3
<1> QED
  BY <1>4, <1>5

\* Workers that go leave room.
LEMMA CountSubset ==
  ASSUME BudgetInv, NEW k \in Keys, Alive(k)' \subseteq Alive(k)
  PROVE  /\ IsFiniteSet(Alive(k)')
         /\ Cardinality(Alive(k)') \in Nat
         /\ Cardinality(Alive(k)') <= Cardinality(Alive(k))
  BY BudgetHere, FS_Subset, FS_CardinalityType

LEMMA BudgetInstall ==
  ASSUME BudgetInv, LocksInstalled
  PROVE  FiniteAlive' /\ WorkerBudget'
<1>1. PICK R \in SUBSET conf, K \in SUBSET Keys :
        \E od, L, S, U \in SUBSET K :
          /\ K \cap conf \subseteq R /\ S \subseteq L \cup U
          /\ Install(R, K, od, L) /\ Spawn(S, U)
  BY DEF LocksInstalled
<1>2. PICK od \in SUBSET K, L \in SUBSET K, S \in SUBSET K, U \in SUBSET K :
          /\ K \cap conf \subseteq R /\ S \subseteq L \cup U
          /\ Install(R, K, od, L) /\ Spawn(S, U)
  BY <1>1
<1>3. S \in SUBSET Keys /\ Spawn(S, U)
  BY <1>2
<1>4. FiniteAlive'
  BY <1>3, CountSpawn DEF FiniteAlive
<1>5. ASSUME NEW k \in Keys
      PROVE  Cardinality(Alive(k)') + Startable(k)' <= gen'[k] + unguarded'[k]
  <2>1. /\ Cardinality(Alive(k)) \in Nat /\ gen[k] \in Nat /\ unguarded[k] \in Nat
        /\ Cardinality(Alive(k)) + Startable(k) <= gen[k] + unguarded[k]
    BY BudgetHere
  <2>2. /\ Cardinality(Alive(k)') \in Nat
        /\ Cardinality(Alive(k)') <= Cardinality(Alive(k)) + (IF k \in S THEN 1 ELSE 0)
        /\ unguarded'[k] = unguarded[k] + (IF k \in U THEN 1 ELSE 0)
    BY <1>3, CountSpawn
  <2>3. gen'[k] = gen[k] + (IF k \in K THEN 1 ELSE 0)
    BY <2>1, <1>2 DEF Install
  <2>4. CASE k \in K
    <3>1. Startable(k)' <= 1 /\ Startable(k)' \in Nat /\ Startable(k) \in Nat
      BY DEF Startable
    <3>2. k \in L => Startable(k)' = 0
      BY <1>2 DEF Startable, Install
    <3>3. k \in S => k \in L \/ k \in U
      BY <1>2
    <3> QED
      BY <2>1, <2>2, <2>3, <2>4, <3>1, <3>2, <3>3
  <2>5. CASE k \notin K
    <3>1. Startable(k)' <= Startable(k) /\ Startable(k)' \in Nat /\ Startable(k) \in Nat
      BY <1>2, <2>5 DEF Startable, Install
    <3> QED
      BY <2>1, <2>2, <2>3, <2>5, <3>1
  <2> QED
    BY <2>4, <2>5
<1> QED
  BY <1>4, <1>5 DEF WorkerBudget, Startable

LEMMA BudgetStart ==
  ASSUME BudgetInv, LocksTaken
  PROVE  FiniteAlive' /\ WorkerBudget'
<1>1. PICK S \in SUBSET conf :
        Spawn(S, S \cap runLock) /\ runLock' = runLock \cup S /\ UNCHANGED <<conf, gen>>
  BY DEF LocksTaken
<1>2. S \in SUBSET Keys
  BY DEF BudgetInv, TypeOK
<1>3. FiniteAlive'
  BY <1>1, <1>2, CountSpawn DEF FiniteAlive
<1>4. ASSUME NEW k \in Keys
      PROVE  Cardinality(Alive(k)') + Startable(k)' <= gen'[k] + unguarded'[k]
  <2>1. /\ Cardinality(Alive(k)) \in Nat /\ gen[k] \in Nat /\ unguarded[k] \in Nat
        /\ Cardinality(Alive(k)) + Startable(k) <= gen[k] + unguarded[k]
    BY BudgetHere
  <2>2. /\ Cardinality(Alive(k)') \in Nat
        /\ Cardinality(Alive(k)') <= Cardinality(Alive(k)) + (IF k \in S THEN 1 ELSE 0)
        /\ unguarded'[k] = unguarded[k] + (IF k \in S \cap runLock THEN 1 ELSE 0)
    BY <1>1, <1>2, CountSpawn
  <2>3. Startable(k)' = (IF k \in S THEN 0 ELSE Startable(k))
    BY <1>1 DEF Startable
  <2>4. k \in S /\ k \notin runLock => Startable(k) = 1
    BY DEF Startable
  <2>5. Startable(k) \in {0, 1}
    BY DEF Startable
  <2> QED
    BY <1>1, <2>1, <2>2, <2>3, <2>4, <2>5
<1> QED
  BY <1>3, <1>4 DEF WorkerBudget, Startable

\* A channel that leaves the registry can no longer be started.
LEMMA BudgetRemove ==
  ASSUME BudgetInv, LocksRemoved
  PROVE  FiniteAlive' /\ WorkerBudget'
<1>1. PICK R \in SUBSET conf : Install(R, {}, {}, {}) /\ UNCHANGED <<workers, unguarded>>
  BY DEF LocksRemoved
<1>2. \A k \in Keys : Alive(k)' = Alive(k)
  BY <1>1 DEF Alive, workers
<1>3. ASSUME NEW k \in Keys
      PROVE  Cardinality(Alive(k)') + Startable(k)' <= gen'[k] + unguarded'[k]
  <2>1. /\ Cardinality(Alive(k)) \in Nat /\ gen[k] \in Nat /\ unguarded[k] \in Nat
        /\ Cardinality(Alive(k)) + Startable(k) <= gen[k] + unguarded[k]
    BY BudgetHere
  <2>2. gen'[k] = gen[k] /\ unguarded'[k] = unguarded[k]
    BY <1>1 DEF Install
  <2>3. Startable(k)' <= Startable(k) /\ Startable(k)' \in Nat /\ Startable(k) \in Nat
    BY <1>1 DEF Startable, Install
  <2> QED
    BY <1>2, <2>1, <2>2, <2>3
<1>4. FiniteAlive'
  BY <1>2 DEF BudgetInv, FiniteAlive
<1> QED
  BY <1>3, <1>4 DEF WorkerBudget, Startable

\* The worker that gives the lock back makes way for the one that may take it.
LEMMA BudgetRelease ==
  ASSUME BudgetInv, LockReleased
  PROVE  FiniteAlive' /\ WorkerBudget'
<1>1. PICK w \in Workers :
        /\ w \in Alive(wkey[w]) /\ runLock' = runLock \ {wkey[w]}
        /\ \A k \in Keys : Alive(k)' = Alive(k) \ {w}
        /\ UNCHANGED <<conf, gen, unguarded>>
  BY DEF LockReleased
<1>2. ASSUME NEW k \in Keys
      PROVE  Cardinality(Alive(k)') + Startable(k)' <= gen'[k] + unguarded'[k]
  <2>1. /\ IsFiniteSet(Alive(k))
        /\ Cardinality(Alive(k)) \in Nat /\ gen[k] \in Nat /\ unguarded[k] \in Nat
        /\ Cardinality(Alive(k)) + Startable(k) <= gen[k] + unguarded[k]
    BY BudgetHere
  <2>2. Cardinality(Alive(k)') = IF w \in Alive(k) THEN Cardinality(Alive(k)) - 1
                                                   ELSE Cardinality(Alive(k))
    BY <1>1, <2>1, FS_RemoveElement
  <2>3. Startable(k) \in {0, 1} /\ Startable(k)' \in {0, 1}
    BY DEF Startable
  <2>4. k # wkey[w] => Startable(k)' = Startable(k)
    BY <1>1 DEF Startable
  <2> QED
    BY <1>1, <2>1, <2>2, <2>3, <2>4
<1>3. FiniteAlive'
  BY <1>1, FS_RemoveElement DEF BudgetInv, FiniteAlive
<1> QED
  BY <1>2, <1>3 DEF WorkerBudget, Startable

LEMMA BudgetKept ==
  ASSUME BudgetInv, LocksKept
  PROVE  FiniteAlive' /\ WorkerBudget'
<1>1. /\ UNCHANGED <<conf, gen, runLock, unguarded>>
      /\ \A k \in Keys : Alive(k)' \subseteq Alive(k)
  BY DEF LocksKept
<1>2. FiniteAlive'
  BY <1>1, CountSubset DEF FiniteAlive
<1>3. ASSUME NEW k \in Keys
      PROVE  Cardinality(Alive(k)') + Startable(k)' <= gen'[k] + unguarded'[k]
  <2>1. /\ Cardinality(Alive(k)) \in Nat /\ gen[k] \in Nat /\ unguarded[k] \in Nat
        /\ Cardinality(Alive(k)) + Startable(k) <= gen[k] + unguarded[k]
    BY BudgetHere
  <2>2. /\ Cardinality(Alive(k)') \in Nat
        /\ Cardinality(Alive(k)') <= Cardinality(Alive(k))
    BY <1>1, CountSubset
  <2>3. Startable(k)' = Startable(k) /\ Startable(k) \in Nat
    BY <1>1 DEF Startable
  <2> QED
    BY <1>1, <2>1, <2>2, <2>3
<1> QED
  BY <1>2, <1>3 DEF WorkerBudget, Startable

LEMMA BudgetNext == BudgetInv /\ [Next]_vars => BudgetInv'
<1> SUFFICES ASSUME BudgetInv, [Next]_vars PROVE BudgetInv'
  OBVIOUS
<1>1. TypeOK' /\ LockStep
  BY TypeNext, LockSteps DEF BudgetInv
<1>2. FiniteAlive' /\ WorkerBudget'
  BY <1>1, BudgetKept, BudgetInstall, BudgetRemove, BudgetStart, BudgetRelease DEF LockStep
<1> QED
  BY <1>1, <1>2 DEF BudgetInv

\* However the registry is changed and whatever goes around the lock, a channel has at most
\* one worker for each time it was configured and each start that did not take a free lock;
\* a lock that is free counts as the worker that StreamChannelRun may start.
THEOREM WorkerBudgetCorrect == Spec => []WorkerBudget
<1>1. Init => BudgetInv
  BY BudgetInit
<1>2. BudgetInv /\ [Next]_vars => BudgetInv'
  BY BudgetNext
<1>3. BudgetInv => WorkerBudget
  BY DEF BudgetInv
<1> QED
  BY <1>1, <1>2, <1>3, PTL DEF Spec
-----------------------------------------------------------------------------
(* A channel shown ONLINE has a connected worker.                          *)

\* A connected worker of k.
Serves(w, k) == w \in Workers /\ wpc[w] \in {"open", "select", "cast", "closing"} /\ wkey[w] = k

\* The two halves of OnlineMeansSession.  The first is inductive with the types; the second
\* needs what runLock guarantees: the OFFLINE of one worker hits no other worker of the channel.
Shown == \A k \in online : \E w \in Workers : Serves(w, k)
Steady == \A k \in conf : gen[k] = 1 /\ unguarded[k] = 0 => \A w \in Workers : Serves(w, k) => k \in online

OnlineInv == TypeOK /\ Shown

\* A step that turns no channel ONLINE and disconnects no worker keeps the invariant.
LEMMA OnlineKept ==
  ASSUME OnlineInv, TypeOK', online' \subseteq online,
         \A w \in Workers : wpc[w] \in {"open", "select", "cast", "closing"} =>
            wpc'[w] \in {"open", "select", "cast", "closing"} /\ wkey'[w] = wkey[w]
  PROVE  OnlineInv'
<1>1. \A k \in online' : \E w \in Workers : Serves(w, k)
  BY DEF OnlineInv, Shown
<1>2. \A k \in online' : \E w \in Workers : Serves(w, k)'
  BY <1>1 DEF Serves
<1> QED
  BY <1>2 DEF OnlineInv, Shown

LEMMA OnlineSpawn ==
  ASSUME OnlineInv, TypeOK', online' \subseteq online,
         NEW S \in SUBSET Keys, NEW U, Spawn(S, U)
  PROVE  OnlineInv'
<1>1. \A w \in Workers : wpc[w] # "free" => wpc'[w] = wpc[w] /\ wkey'[w] = wkey[w]
  BY SpawnFacts DEF OnlineInv
<1> QED
  BY <1>1, OnlineKept

LEMMA OnlineSame ==
  ASSUME OnlineInv, TypeOK', online' \subseteq online, UNCHANGED workers
  PROVE  OnlineInv'
  BY OnlineKept DEF workers

LEMMA OnlineApi == OnlineInv /\ TypeOK' /\ Api => OnlineInv'
<1> SUFFICES ASSUME OnlineInv, TypeOK', Api PROVE OnlineInv'
  OBVIOUS
<1>i. \A R, K, od, L : Install(R, K, od, L) => online' \subseteq online
  BY DEF Install
<1>k. \A s \in Streams : \A K \in SUBSET ({s} \X Channels) : K \in SUBSET Keys
  BY DEF Keys
<1>b. ASSUME NEW call, NEW T, Blocks(call, T) PROVE OnlineInv'
  BY <1>b, OnlineSame DEF Blocks
<1>1. ASSUME NEW s \in Streams, NEW K \in SUBSET ({s} \X Channels), NEW od \in SUBSET K,
             StreamAdd(s, K, od)
      PROVE  OnlineInv'
  <2>1. K \ od \in SUBSET Keys
    BY <1>k
  <2>2. Spawn(K \ od, {}) /\ online' \subseteq online
    BY <1>1, <1>i DEF StreamAdd
  <2> QED
    BY <2>1, <2>2, OnlineSpawn
<1>2. ASSUME NEW s \in Streams, NEW K \in SUBSET ({s} \X Channels), NEW od \in SUBSET K,
             StreamEdit(s, K, od)
      PROVE  OnlineInv'
  <2>1. K \ od \in SUBSET Keys
    BY <1>k
  <2>2. (\E call, T : Blocks(call, T)) \/ (Spawn(K \ od, {}) /\ online' \subseteq online)
    BY <1>2, <1>i DEF StreamEdit
  <2> QED
    BY <1>b, <2>1, <2>2, OnlineSpawn
<1>3. ASSUME NEW s \in Streams, StreamDelete(s) PROVE OnlineInv'
  <2>1. (\E call, T : Blocks(call, T)) \/ (UNCHANGED workers /\ online' \subseteq online)
    BY <1>3, <1>i DEF StreamDelete
  <2> QED
    BY <1>b, <2>1, OnlineSame
<1>4. ASSUME NEW s \in Streams, StreamReload(s) PROVE OnlineInv'
  BY <1>4, <1>b, OnlineSame DEF StreamReload
<1>5. ASSUME NEW k \in Keys, NEW od \in SUBSET {k}, ChannelAdd(k, od) PROVE OnlineInv'
  <2>1. Spawn({k} \ od, {k} \ od) /\ online' \subseteq online /\ {k} \ od \in SUBSET Keys
    BY <1>5, <1>i DEF ChannelAdd
  <2> QED
    BY <2>1, OnlineSpawn
<1>6. ASSUME NEW k \in Keys, NEW od \in SUBSET {k}, ChannelEdit(k, od) PROVE OnlineInv'
  <2>1. \/ \E call, T : Blocks(call, T)
        \/ Spawn({k} \ od, {k} \ od) /\ online' \subseteq online /\ {k} \ od \in SUBSET Keys
    BY <1>6, <1>i DEF ChannelEdit
  <2> QED
    BY <1>b, <2>1, OnlineSpawn
<1>7. ASSUME NEW k \in Keys, ChannelDelete(k) PROVE OnlineInv'
  <2>1. (\E call, T : Blocks(call, T)) \/ (UNCHANGED workers /\ online' \subseteq online)
    BY <1>7, <1>i DEF ChannelDelete
  <2> QED
    BY <1>b, <2>1, OnlineSame
<1>8. ASSUME NEW k \in Keys, ChannelReload(k) PROVE OnlineInv'
  BY <1>8, <1>b, OnlineSame DEF ChannelReload
<1>9. CASE StopAll
  BY <1>9, <1>b, OnlineSame DEF StopAll
<1>10. CASE StreamChannelRunAll
  <2>1. /\ Spawn(conf \ onDemand, (conf \ onDemand) \cap runLock)
        /\ conf \ onDemand \in SUBSET Keys /\ online' \subseteq online
    BY <1>10 DEF StreamChannelRunAll, OnlineInv, TypeOK
  <2> QED
    BY <2>1, OnlineSpawn
<1> QED
  BY <1>1, <1>2, <1>3, <1>4, <1>5, <1>6, <1>7, <1>8, <1>9, <1>10 DEF Api

LEMMA OnlineViewer == OnlineInv /\ TypeOK' /\ (\E v \in Viewers : Viewer(v)) => OnlineInv'
<1> SUFFICES ASSUME OnlineInv, TypeOK', NEW v \in Viewers, Viewer(v) PROVE OnlineInv'
  OBVIOUS
<1>1. ASSUME NEW k \in Keys, StreamChannelExist(v, k) PROVE OnlineInv'
  BY <1>1, OnlineSame DEF StreamChannelExist
<1>2. CASE StreamChannelRun(v)
  <2>1. CASE CanRun(vkey[v])
    <3>1. Spawn({vkey[v]}, {}) /\ {vkey[v]} \in SUBSET Keys /\ online' \subseteq online
      BY <1>2, <2>1 DEF StreamChannelRun, CanRun, OnlineInv, TypeOK
    <3> QED
      BY <3>1, OnlineSpawn
  <2>2. CASE ~CanRun(vkey[v])
    BY <1>2, <2>2, OnlineSame DEF StreamChannelRun
  <2> QED
    BY <2>1, <2>2
<1>3. CASE ClientAdd(v)
  BY <1>3, OnlineSame DEF ClientAdd
<1>4. CASE Leave(v)
  BY <1>4, OnlineSame DEF Leave
<1> QED
  BY <1>1, <1>2, <1>3, <1>4 DEF Viewer

LEMMA OnlineWorker == OnlineInv /\ TypeOK' /\ (\E w \in Workers : Worker(w)) => OnlineInv'
<1> SUFFICES ASSUME OnlineInv, TypeOK', NEW w \in Workers, Worker(w) PROVE OnlineInv'
  OBVIOUS
<1>0. TypeOK
  BY DEF OnlineInv
<1>n. ASSUME online' \subseteq online, wpc[w] \notin {"open", "select", "cast", "closing"},
             \A u \in Workers \ {w} : wpc'[u] = wpc[u] /\ wkey'[u] = wkey[u]
      PROVE  OnlineInv'
  BY <1>n, OnlineKept
<1>m. ASSUME NEW pc \in {"open", "select", "cast", "closing"}, MoveTo(w, pc),
             online' \subseteq online, UNCHANGED wkey
      PROVE  OnlineInv'
  BY <1>0, <1>m, OnlineKept DEF MoveTo, TypeOK
<1>u. ASSUME NEW pc, MoveTo(w, pc) PROVE \A u \in Workers \ {w} : wpc'[u] = wpc[u]
  BY <1>0, <1>u DEF MoveTo, TypeOK
<1>1. CASE Control(w)
  <2>1. (MoveTo(w, "check") \/ MoveTo(w, "unlock")) /\ wpc[w] = "control"
        /\ UNCHANGED <<online, wkey>>
    BY <1>1 DEF Control
  <2> QED
    BY <1>n, <1>u, <2>1
<1>2. CASE CheckClients(w)
  BY <1>2, <1>n, <1>u DEF CheckClients
<1>3. CASE DialFails(w)
  BY <1>3, <1>n, <1>u DEF DialFails
<1>4. CASE DialSucceeds(w)
  <2>1. /\ wpc[w] = "dial" /\ wpc' = [wpc EXCEPT ![w] = "open"] /\ wkey' = wkey
        /\ online' \subseteq online \cup {wkey[w]}
    BY <1>4 DEF DialSucceeds, MoveTo, StatusOnline
  <2>2. /\ wpc'[w] = "open"
        /\ \A u \in Workers \ {w} : wpc'[u] = wpc[u]
    BY <1>0, <2>1 DEF TypeOK
  <2>3. \A k \in online : \E u \in Workers \ {w} : Serves(u, k)
    BY <2>1 DEF OnlineInv, Shown, Serves
  <2>4. \A k \in online : \E u \in Workers : Serves(u, k)'
    BY <2>1, <2>2, <2>3 DEF Serves
  <2>5. Serves(w, wkey[w])'
    BY <2>1, <2>2 DEF Serves
  <2>6. \A k \in online' : \E u \in Workers : Serves(u, k)'
    BY <2>1, <2>4, <2>5
  <2> QED
    BY <2>6 DEF OnlineInv, Shown
<1>5. CASE ClientsTimer(w)
  BY <1>5, <1>m DEF ClientsTimer, Returns
<1>6. CASE SourceLost(w)
  BY <1>6, <1>m DEF SourceLost, Returns
<1>7. CASE TakeSignal(w)
  BY <1>7, <1>m DEF TakeSignal, Obeys, Returns
<1>8. CASE Packet(w)
  BY <1>8, <1>m DEF Packet
<1>9. CASE Cast(w)
  BY <1>9, <1>m DEF Cast
<1>10. CASE CloseSession(w)
  <2>1. wpc[w] = "closing" /\ online' = online \ {wkey[w]}
    BY <1>10 DEF CloseSession, StatusOffline
  <2>2. \A u \in Workers \ {w} : wpc'[u] = wpc[u] /\ wkey'[u] = wkey[u]
    <3>1. CASE wret[w] = 2
      BY <1>0, <1>10, <3>1 DEF CloseSession, Exits, MoveTo, TypeOK
    <3>2. CASE wret[w] # 2
      <4>1. (MoveTo(w, "unlock") \/ MoveTo(w, "sleep")) /\ UNCHANGED wkey
        BY <1>10, <3>2 DEF CloseSession
      <4> QED
        BY <1>u, <4>1
    <3> QED
      BY <3>1, <3>2
  <2>3. \A k \in online' : \E u \in Workers \ {w} : Serves(u, k)
    BY <2>1 DEF OnlineInv, Shown, Serves
  <2>4. \A k \in online' : \E u \in Workers : Serves(u, k)'
    BY <2>2, <2>3 DEF Serves
  <2> QED
    BY <2>4 DEF OnlineInv, Shown
<1>11. CASE Wake(w)
  BY <1>11, <1>n, <1>u DEF Wake
<1>12. CASE StreamChannelUnlock(w)
  <2>1. \A u \in Workers \ {w} : wpc'[u] = wpc[u] /\ wkey'[u] = wkey[u]
    BY <1>0, <1>12 DEF StreamChannelUnlock, Exits, MoveTo, TypeOK
  <2> QED
    BY <1>12, <1>n, <2>1 DEF StreamChannelUnlock
<1>13. CASE OpenMuxer(w)
  BY <1>13, <1>m DEF OpenMuxer
<1> QED
  BY <1>1, <1>2, <1>3, <1>4, <1>5, <1>6, <1>7, <1>8, <1>9, <1>10, <1>11, <1>12, <1>13 DEF Worker

LEMMA OnlineNext == OnlineInv /\ [Next]_vars => OnlineInv'
<1> SUFFICES ASSUME OnlineInv, [Next]_vars PROVE OnlineInv'
  OBVIOUS
<1>1. TypeOK'
  BY TypeNext DEF OnlineInv
<1>2. CASE UNCHANGED vars
  BY <1>1, <1>2, OnlineSame DEF vars
<1>3. ASSUME NEW k \in Keys, AckExpires(k) PROVE OnlineInv'
  BY <1>1, <1>3, OnlineSame DEF AckExpires
<1> QED
  BY <1>1, <1>2, <1>3, OnlineApi, OnlineViewer, OnlineWorker DEF Next
-----------------------------------------------------------------------------
(* A guarded channel is not shown OFFLINE while its worker is connected.   *)

SteadyInv == LockInv /\ Steady

\* A step that connects no worker, and forgets no unguarded start.
Calm ==
  /\ \A w \in Workers : \A k \in Keys : Serves(w, k)' => Serves(w, k)
  /\ \A k \in Keys : unguarded'[k] = 0 => unguarded[k] = 0

\* What the registry shows stays, but where a channel is installed anew or removed.
Registered == UNCHANGED <<conf, gen, online>> \/ \E R, K, od, L : Install(R, K, od, L)

\* A channel that was just configured for the first time had no worker.
LEMMA SteadyCalm ==
  ASSUME SteadyInv, LockInv', Calm, Registered
  PROVE  SteadyInv'
<1>1. TypeOK /\ TypeOK' /\ NoEarlyWorker
  BY DEF SteadyInv, LockInv
<1> SUFFICES ASSUME NEW k \in conf', gen'[k] = 1, unguarded'[k] = 0,
                    NEW w \in Workers, Serves(w, k)'
             PROVE  k \in online'
  BY DEF SteadyInv, Steady
<1>2. k \in Keys
  BY <1>1 DEF TypeOK
<1>3. Serves(w, k) /\ unguarded[k] = 0
  BY <1>2 DEF Calm
<1>4. CASE UNCHANGED <<conf, gen, online>>
  BY <1>3, <1>4 DEF SteadyInv, Steady
<1>5. ASSUME NEW R, NEW K, NEW od, NEW L, Install(R, K, od, L) PROVE k \in online'
  <2>1. conf' = (conf \ R) \cup K /\ online' = online \ (R \cup K)
        /\ gen' = [j \in Keys |-> IF j \in K THEN gen[j] + 1 ELSE gen[j]]
    BY <1>5 DEF Install
  <2>2. k \notin K
    <3>1. SUFFICES ASSUME k \in K PROVE FALSE
      OBVIOUS
    <3>2. gen[k] = 0
      BY <1>1, <1>2, <2>1, <3>1, SMTT(30) DEF TypeOK
    <3>3. w \in Alive(k)
      BY <1>3 DEF Serves, Alive
    <3> QED
      BY <1>1, <1>2, <3>2, <3>3 DEF NoEarlyWorker
  <2>3. k \in conf /\ k \notin R /\ gen[k] = 1
    BY <1>2, <2>1, <2>2
  <2>4. k \in online
    BY <1>3, <2>3 DEF SteadyInv, Steady
  <2> QED
    BY <2>1, <2>2, <2>3, <2>4
<1> QED
  BY <1>4, <1>5 DEF Registered

LEMMA CalmSpawn ==
  ASSUME TypeOK, NEW S \in SUBSET Keys, NEW U, Spawn(S, U)
  PROVE  Calm
<1>1. \A w \in Workers : wpc[w] # "free" => wpc'[w] = wpc[w] /\ wkey'[w] = wkey[w]
  BY SpawnFacts
<1>2. \A w \in Workers : wpc[w] = "free" => wpc'[w] \in {"free", "control"}
  BY SpawnFacts
<1>3. unguarded' = [k \in Keys |-> IF k \in U THEN unguarded[k] + 1 ELSE unguarded[k]]
  BY DEF Spawn
<1>4. \A k \in Keys : unguarded'[k] = 0 => unguarded[k] = 0
  BY <1>3 DEF TypeOK
<1>5. \A w \in Workers : \A k \in Keys : Serves(w, k)' => Serves(w, k)
  BY <1>1, <1>2 DEF Serves
<1> QED
  BY <1>4, <1>5 DEF Calm

LEMMA CalmSame == UNCHANGED <<wpc, wkey, unguarded>> => Calm
  BY DEF Calm, Serves

LEMMA CalmApi == TypeOK /\ Api => Calm /\ Registered
<1> SUFFICES ASSUME TypeOK, Api PROVE Calm /\ Registered
  OBVIOUS
<1> USE DEF registry, workers, history
<1>i. \A R, K, od, L : Install(R, K, od, L) => Registered
  BY DEF Registered
<1>k. \A s \in Streams : \A K \in SUBSET ({s} \X Channels) : K \in SUBSET Keys
  BY DEF Keys
<1>b. ASSUME NEW call, NEW T, Blocks(call, T) PROVE Calm /\ Registered
  BY <1>b, CalmSame DEF Blocks, Registered
<1>1. ASSUME NEW s \in Streams, NEW K \in SUBSET ({s} \X Channels), NEW od \in SUBSET K,
             StreamAdd(s, K, od) \/ StreamEdit(s, K, od)
      PROVE  Calm /\ Registered
  <2>1. K \ od \in SUBSET Keys
    BY <1>k
  <2>2. (\E call, T : Blocks(call, T)) \/ (Spawn(K \ od, {}) /\ Registered)
    BY <1>1, <1>i DEF StreamAdd, StreamEdit
  <2> QED
    BY <1>b, <2>1, <2>2, CalmSpawn
<1>2. ASSUME NEW s \in Streams, StreamDelete(s) PROVE Calm /\ Registered
  <2>1. (\E call, T : Blocks(call, T)) \/ (UNCHANGED <<wpc, wkey, unguarded>> /\ Registered)
    BY <1>2, <1>i DEF StreamDelete
  <2> QED
    BY <1>b, <2>1, CalmSame
<1>3. ASSUME NEW s \in Streams, StreamReload(s) PROVE Calm /\ Registered
  BY <1>3, <1>b, CalmSame DEF StreamReload, Registered
<1>4. ASSUME NEW k \in Keys, NEW od \in SUBSET {k}, ChannelAdd(k, od) \/ ChannelEdit(k, od)
      PROVE  Calm /\ Registered
  <2>1. \/ \E call, T : Blocks(call, T)
        \/ Spawn({k} \ od, {k} \ od) /\ Registered
    BY <1>4, <1>i DEF ChannelAdd, ChannelEdit
  <2>2. {k} \ od \in SUBSET Keys
    OBVIOUS
  <2> QED
    BY <1>b, <2>1, <2>2, CalmSpawn
<1>5. ASSUME NEW k \in Keys, ChannelDelete(k) PROVE Calm /\ Registered
  <2>1. (\E call, T : Blocks(call, T)) \/ (UNCHANGED <<wpc, wkey, unguarded>> /\ Registered)
    BY <1>5, <1>i DEF ChannelDelete
  <2> QED
    BY <1>b, <2>1, CalmSame
<1>6. ASSUME NEW k \in Keys, ChannelReload(k) PROVE Calm /\ Registered
  BY <1>6, <1>b, CalmSame DEF ChannelReload, Registered
<1>7. CASE StopAll
  BY <1>7, <1>b, CalmSame DEF StopAll, Registered
<1>8. CASE StreamChannelRunAll
  <2>1. /\ Spawn(conf \ onDemand, (conf \ onDemand) \cap runLock)
        /\ conf \ onDemand \in SUBSET Keys /\ Registered
    BY <1>8 DEF StreamChannelRunAll, TypeOK, Registered
  <2> QED
    BY <2>1, CalmSpawn
<1> QED
  BY <1>1, <1>2, <1>3, <1>4, <1>5, <1>6, <1>7, <1>8 DEF Api

LEMMA CalmViewer == TypeOK /\ (\E v \in Viewers : Viewer(v)) => Calm /\ Registered
<1> SUFFICES ASSUME TypeOK, NEW v \in Viewers, Viewer(v) PROVE Calm /\ Registered
  OBVIOUS
<1> USE DEF registry, workers, history, Registered
<1>1. ASSUME NEW k \in Keys, StreamChannelExist(v, k) PROVE Calm /\ Registered
  BY <1>1, CalmSame DEF StreamChannelExist
<1>2. CASE StreamChannelRun(v)
  <2>1. CASE CanRun(vkey[v])
    <3>1. Spawn({vkey[v]}, {}) /\ {vkey[v]} \in SUBSET Keys
      BY <1>2, <2>1 DEF StreamChannelRun, CanRun, TypeOK
    <3> QED
      BY <1>2, <3>1, CalmSpawn DEF StreamChannelRun
  <2>2. CASE ~CanRun(vkey[v])
    BY <1>2, <2>2, CalmSame DEF StreamChannelRun
  <2> QED
    BY <2>1, <2>2
<1>3. CASE ClientAdd(v)
  BY <1>3, CalmSame DEF ClientAdd
<1>4. CASE Leave(v)
  BY <1>4, CalmSame DEF Leave
<1> QED
  BY <1>1, <1>2, <1>3, <1>4 DEF Viewer

LEMMA SteadyWorker ==
  ASSUME SteadyInv, LockInv', NEW w \in Workers, Worker(w)
  PROVE  SteadyInv'
<1>0. TypeOK /\ SingleWorker
  BY DEF SteadyInv, LockInv
<1> USE DEF registry, history
<1>c. Calm /\ Registered => SteadyInv'
  BY SteadyCalm
<1>m. ASSUME NEW pc, MoveTo(w, pc), UNCHANGED <<conf, gen, online, wkey, unguarded>>,
             pc \in {"open", "select", "cast", "closing"}
               => wpc[w] \in {"open", "select", "cast", "closing"}
      PROVE  SteadyInv'
  <2>1. wpc' = [wpc EXCEPT ![w] = pc] /\ wkey' = wkey
    BY <1>m DEF MoveTo
  <2>2. \A u \in Workers : wpc'[u] = IF u = w THEN pc ELSE wpc[u]
    BY <1>0, <2>1 DEF TypeOK
  <2>3. \A u \in Workers : \A k \in Keys : Serves(u, k)' => Serves(u, k)
    BY <1>m, <2>1, <2>2 DEF Serves
  <2> QED
    BY <1>c, <1>m, <2>3 DEF Calm, Registered
<1>1. CASE Control(w)
  BY <1>1, <1>m DEF Control
<1>2. CASE CheckClients(w)
  BY <1>2, <1>m DEF CheckClients
<1>3. CASE DialFails(w)
  BY <1>3, <1>m DEF DialFails
<1>4. CASE DialSucceeds(w)
  <2>1. /\ wpc' = [wpc EXCEPT ![w] = "open"] /\ online' = online \cup ({wkey[w]} \cap conf)
        /\ UNCHANGED <<conf, gen, wkey, unguarded>>
    BY <1>4 DEF DialSucceeds, MoveTo, StatusOnline
  <2>2. \A u \in Workers \ {w} : wpc'[u] = wpc[u]
    BY <1>0, <2>1 DEF TypeOK
  <2> SUFFICES ASSUME NEW k \in conf, gen[k] = 1, unguarded[k] = 0,
                      NEW u \in Workers, Serves(u, k)'
               PROVE  k \in online'
    BY <2>1 DEF SteadyInv, Steady
  <2>3. CASE u = w
    BY <2>1, <2>3 DEF Serves
  <2>4. CASE u # w
    <3>1. Serves(u, k)
      BY <2>1, <2>2, <2>4 DEF Serves
    <3> QED
      BY <2>1, <3>1 DEF SteadyInv, Steady
  <2> QED
    BY <2>3, <2>4
<1>5. CASE ClientsTimer(w)
  BY <1>5, <1>m DEF ClientsTimer, Returns
<1>6. CASE SourceLost(w)
  BY <1>6, <1>m DEF SourceLost, Returns
<1>7. CASE TakeSignal(w)
  BY <1>7, <1>m DEF TakeSignal, Obeys, Returns
<1>8. CASE Packet(w)
  BY <1>8, <1>m DEF Packet
<1>9. CASE Cast(w)
  BY <1>9, <1>m DEF Cast
<1>10. CASE CloseSession(w)
  <2>1. /\ wpc[w] = "closing" /\ online' = online \ {wkey[w]}
        /\ UNCHANGED <<conf, gen, unguarded>>
    BY <1>10 DEF CloseSession, StatusOffline
  <2>2. /\ wpc'[w] \in {"free", "unlock", "sleep"}
        /\ \A u \in Workers \ {w} : wpc'[u] = wpc[u] /\ wkey'[u] = wkey[u]
    <3>1. CASE wret[w] = 2
      BY <1>0, <1>10, <3>1 DEF CloseSession, Exits, MoveTo, TypeOK
    <3>2. CASE wret[w] # 2
      BY <1>0, <1>10, <3>2 DEF CloseSession, MoveTo, TypeOK
    <3> QED
      BY <3>1, <3>2
  <2> SUFFICES ASSUME NEW k \in conf, gen[k] = 1, unguarded[k] = 0,
                      NEW u \in Workers, Serves(u, k)'
               PROVE  k \in online'
    BY <2>1 DEF SteadyInv, Steady
  <2>3. u # w /\ Serves(u, k)
    BY <2>2 DEF Serves
  <2>4. k \in online /\ k \in Keys
    BY <1>0, <2>3 DEF SteadyInv, Steady, TypeOK
  <2>5. wkey[w] # k
    <3>1. SUFFICES ASSUME wkey[w] = k PROVE FALSE
      OBVIOUS
    <3>2. w \in Alive(k) /\ u \in Alive(k)
      BY <2>1, <2>3, <3>1 DEF Alive, Serves
    <3> QED
      BY <1>0, <2>3, <2>4, <3>2 DEF SingleWorker
  <2> QED
    BY <2>1, <2>4, <2>5
<1>11. CASE Wake(w)
  BY <1>11, <1>m DEF Wake
<1>12. CASE StreamChannelUnlock(w)
  <2>1. \A u \in Workers : u # w => wpc'[u] = wpc[u] /\ wkey'[u] = wkey[u]
    BY <1>0, <1>12 DEF StreamChannelUnlock, Exits, MoveTo, TypeOK
  <2>2. wpc'[w] = "free" /\ UNCHANGED <<conf, gen, online, unguarded>>
    BY <1>0, <1>12 DEF StreamChannelUnlock, Exits, MoveTo, TypeOK
  <2>3. \A u \in Workers : \A k \in Keys : Serves(u, k)' => Serves(u, k)
    BY <2>1, <2>2 DEF Serves
  <2> QED
    BY <1>c, <2>2, <2>3 DEF Calm, Registered
<1>13. CASE OpenMuxer(w)
  BY <1>13, <1>m DEF OpenMuxer
<1> QED
  BY <1>1, <1>2, <1>3, <1>4, <1>5, <1>6, <1>7, <1>8, <1>9, <1>10, <1>11, <1>12, <1>13 DEF Worker

LEMMA SteadyNext == SteadyInv /\ [Next]_vars => SteadyInv'
<1> SUFFICES ASSUME SteadyInv, [Next]_vars PROVE SteadyInv'
  OBVIOUS
<1>1. LockInv' /\ TypeOK
  BY LockNext DEF SteadyInv, LockInv
<1>2. CASE UNCHANGED vars
  <2>1. Calm /\ Registered
    BY <1>2, CalmSame DEF vars, registry, workers, history, Registered
  <2> QED
    BY <1>1, <2>1, SteadyCalm
<1>3. ASSUME NEW k \in Keys, AckExpires(k) PROVE SteadyInv'
  <2>1. Calm /\ Registered
    BY <1>3, CalmSame DEF AckExpires, registry, workers, history, Registered
  <2> QED
    BY <1>1, <2>1, SteadyCalm
<1> QED
  BY <1>1, <1>2, <1>3, CalmApi, CalmViewer, SteadyCalm, SteadyWorker DEF Next

\* Whatever is edited, deleted or restarted meanwhile, a channel that the API shows as
\* ONLINE is being read from its source by a worker, or that worker is about to say OFFLINE.
\* And a channel configured once, none of whose workers went around the free lock, is shown
\* ONLINE all the while its worker is connected.
THEOREM OnlineMeansSessionCorrect == Spec => []OnlineMeansSession
<1>1. Init => OnlineInv /\ SteadyInv
  <2>1. Init => Shown /\ Steady
    BY DEF Init, Shown, Steady, Serves
  <2> QED
    BY <2>1, TypeInit, LockInit DEF OnlineInv, SteadyInv
<1>2. OnlineInv /\ [Next]_vars => OnlineInv'
  BY OnlineNext
<1>3. SteadyInv /\ [Next]_vars => SteadyInv'
  BY SteadyNext
<1>4. OnlineInv /\ SteadyInv => OnlineMeansSession
  BY DEF OnlineInv, SteadyInv, Shown, Steady, OnlineMeansSession, Serves, Alive, InSession
<1> QED
  BY <1>1, <1>2, <1>3, <1>4, PTL DEF Spec
=============================================================================
