------------------------ MODULE StreamSignalProofs ------------------------
(* What the `signals' queues guarantee, proved for every value of the      *)
(* constants: FreezeNeedsReloads, StopsOnlyForReplaced and LockHasWorker.  *)
EXTENDS StreamLifecycleProofs

(* Queues with no Stop, and with one at most.                              *)

NoStop(q)  == \A i \in DOMAIN q : q[i] # "Stop"
OneStop(q) == \A i, j \in DOMAIN q : q[i] = "Stop" /\ q[j] = "Stop" => i = j

LEMMA AppendStop ==
  ASSUME NEW q \in Seq(Signals), NoStop(q)
  PROVE  OneStop(Append(q, "Stop"))
<1>1. "Stop" \in Signals
  BY DEF Signals
<1> QED
  BY <1>1 DEF NoStop, OneStop

LEMMA AppendRestart ==
  ASSUME NEW q \in Seq(Signals), NoStop(q)
  PROVE  NoStop(Append(q, "Restart"))
<1>1. "Restart" \in Signals
  BY DEF Signals
<1> QED
  BY <1>1 DEF NoStop

LEMMA NoStopIsOneStop == \A q : NoStop(q) => OneStop(q)
  BY DEF NoStop, OneStop

LEMMA EmptyNoStop == NoStop(<<>>)
  BY DEF NoStop

LEMMA TailStop ==
  ASSUME NEW q \in Seq(Signals), q # <<>>
  PROVE  /\ NoStop(q) => NoStop(Tail(q))
         /\ OneStop(q) => OneStop(Tail(q))
         /\ Len(Tail(q)) <= Len(q)
         /\ NoStop(q) => Head(q) = "Restart"
  BY DEF NoStop, OneStop, Signals
-----------------------------------------------------------------------------
(* The queues.                                                             *)

\* Nothing is sent to an incarnation that does not exist yet.
EmptyAhead == \A k \in Keys : \A g \in 1..MaxGen : g > gen[k] => sig[k][g] = <<>>

\* What waits in the queue of a configured channel was sent by a reload or by StopAll.
Shutdowns == IF down THEN 1 ELSE 0

ReloadsCounted == \A k \in conf : Len(sig[k][gen[k]]) <= reloads + Shutdowns

LEMMA ShutdownCount ==
  /\ Shutdowns \in 0..1 /\ (~down => Shutdowns = 0) /\ (down => Shutdowns = 1)
  /\ FreezeNeedsReloads <=> (~MutexFree => SignalCap <= reloads + Shutdowns)
  BY DEF Shutdowns, FreezeNeedsReloads

LEMMA ShutdownsSame == ASSUME down' = down PROVE Shutdowns' = Shutdowns
  BY DEF Shutdowns

StopsPlaced ==
  ~down => \A k \in Keys : \A g \in 1..MaxGen :
    OneStop(sig[k][g]) /\ (k \in conf /\ g = gen[k] => NoStop(sig[k][g]))

LEMMA StopsPlacedIs == StopsPlaced <=> StopsOnlyForReplaced
  BY DEF StopsPlaced, StopsOnlyForReplaced, OneStop, NoStop

QueueInv == TypeOK /\ EmptyAhead /\ ReloadsCounted /\ FreezeNeedsReloads /\ StopsPlaced

\* sig' results from sending s to the channels of T
Sent(T, s) ==
  \A k \in Keys, g \in 1..MaxGen :
    sig'[k][g] = IF k \in T /\ g = gen[k] THEN Append(sig[k][g], s) ELSE sig[k][g]

LEMMA QueueTyped ==
  ASSUME TypeOK, NEW k \in Keys, NEW g \in 1..MaxGen
  PROVE  /\ sig[k][g] \in Seq(Signals) /\ Len(sig[k][g]) \in Nat
         /\ gen[k] \in Nat /\ reloads \in Nat /\ MaxGen \in Nat
         /\ k \in conf => gen[k] \in 1..MaxGen
<1>0. sig[k] \in [1..MaxGen -> Seq(Signals)]
  BY DEF TypeOK
<1>1. sig[k][g] \in Seq(Signals)
  BY <1>0
<1>2. Len(sig[k][g]) \in Nat
  BY <1>1
<1>3. gen[k] \in Nat /\ reloads \in Nat /\ MaxGen \in Nat
  BY LifecycleAssumption DEF TypeOK
<1>4. k \in conf => gen[k] \in 1..MaxGen
  BY <1>3 DEF TypeOK
<1> QED
  BY <1>1, <1>2, <1>3, <1>4

LEMMA NextQueueTyped ==
  ASSUME TypeOK', NEW k \in Keys, NEW g \in 1..MaxGen
  PROVE  sig'[k][g] \in Seq(Signals) /\ Len(sig'[k][g]) \in Nat
<1>0. sig'[k] \in [1..MaxGen -> Seq(Signals)]
  BY DEF TypeOK
<1>1. sig'[k][g] \in Seq(Signals)
  BY <1>0
<1> QED
  BY <1>1

LEMMA QueueInit == Init => QueueInv
<1> SUFFICES ASSUME Init PROVE QueueInv
  OBVIOUS
<1>1. TypeOK
  BY TypeInit
<1>2. \A k \in Keys, g \in 1..MaxGen : sig[k][g] = <<>>
  BY DEF Init
<1>3. EmptyAhead
  BY <1>2 DEF EmptyAhead
<1>4. \A k \in conf : k \in Keys /\ gen[k] \in 1..MaxGen
  BY <1>1, LifecycleAssumption DEF TypeOK
<1>5. ReloadsCounted
  <2>1. SUFFICES ASSUME NEW k \in conf PROVE Len(sig[k][gen[k]]) <= reloads + Shutdowns
    BY DEF ReloadsCounted
  <2>2. sig[k][gen[k]] = <<>> /\ reloads = 0
    BY <1>2, <1>4 DEF Init
  <2> QED
    BY <2>2, ShutdownCount
<1>6. FreezeNeedsReloads
  BY ShutdownCount DEF Init, MutexFree
<1>7. StopsPlaced
  BY <1>2, EmptyNoStop, NoStopIsOneStop DEF StopsPlaced
<1> QED
  BY <1>1, <1>3, <1>5, <1>6, <1>7 DEF QueueInv

\* Steps that leave the queues and the registry alone.
LEMMA QueueSame ==
  ASSUME QueueInv, TypeOK', UNCHANGED <<sig, conf, gen, down, reloads, held>>
  PROVE  QueueInv'
<1>1. Shutdowns' = Shutdowns
  BY ShutdownsSame
<1>2. EmptyAhead' /\ StopsPlaced'
  BY DEF QueueInv, EmptyAhead, StopsPlaced
<1>3. ReloadsCounted'
  BY <1>1 DEF QueueInv, ReloadsCounted
<1>4. FreezeNeedsReloads'
  BY DEF QueueInv, FreezeNeedsReloads, MutexFree
<1> QED
  BY <1>2, <1>3, <1>4 DEF QueueInv

\* A call that blocks has found a full queue, of a configured channel.
LEMMA QueueBlocks ==
  ASSUME QueueInv, TypeOK', NEW call, NEW T \in SUBSET conf, Blocks(call, T)
  PROVE  QueueInv'
<1>1. UNCHANGED <<sig, conf, gen, down, reloads>>
  BY DEF Blocks, registry, history
<1>2. PICK k \in T : Len(sig[k][gen[k]]) >= SignalCap
  BY DEF Blocks, Full
<1>3. Len(sig[k][gen[k]]) <= reloads + Shutdowns
  BY <1>2 DEF QueueInv, ReloadsCounted
<1>4. k \in Keys /\ gen[k] \in 1..MaxGen
  BY <1>2, LifecycleAssumption DEF QueueInv, TypeOK
<1>5. SignalCap <= reloads + Shutdowns
  <2>1. Len(sig[k][gen[k]]) \in Nat /\ reloads \in Nat
    BY <1>4, QueueTyped DEF QueueInv
  <2> QED
    BY <1>2, <1>3, <2>1, ShutdownCount, LifecycleAssumption
<1>6. Shutdowns' = Shutdowns
  BY <1>1, ShutdownsSame
<1>7. EmptyAhead' /\ StopsPlaced'
  BY <1>1 DEF QueueInv, EmptyAhead, StopsPlaced
<1>8. ReloadsCounted'
  BY <1>1, <1>6 DEF QueueInv, ReloadsCounted
<1>9. FreezeNeedsReloads'
  BY <1>1, <1>5 DEF FreezeNeedsReloads, Shutdowns
<1> QED
  BY <1>7, <1>8, <1>9 DEF QueueInv

\* (Re)configuring channels: a Stop goes to channels that are replaced.
LEMMA QueueInstall ==
  ASSUME QueueInv, TypeOK', NEW R \in SUBSET conf, NEW K \in SUBSET Keys, K \cap conf \subseteq R,
         NEW od, NEW L, Install(R, K, od, L), NEW T \in SUBSET R, Sent(T, "Stop"),
         UNCHANGED <<down, reloads>>, held' \in {held, NoCall}
  PROVE  QueueInv'
<1>0. TypeOK
  BY DEF QueueInv
<1>1. /\ conf' = (conf \ R) \cup K
      /\ \A k \in Keys : gen'[k] = IF k \in K THEN gen[k] + 1 ELSE gen[k]
  BY DEF Install
<1>2. ASSUME NEW k \in Keys, NEW g \in 1..MaxGen, g > gen'[k] PROVE sig'[k][g] = <<>>
  <2>1. g > gen[k]
    BY <1>0, <1>1, <1>2, QueueTyped
  <2> QED
    BY <1>0, <2>1, QueueTyped DEF Sent, QueueInv, EmptyAhead
<1>3. ASSUME NEW k \in conf'
      PROVE  /\ gen'[k] \in 1..MaxGen /\ k \in Keys
             /\ sig'[k][gen'[k]] = <<>> \/ (k \in conf /\ sig'[k][gen'[k]] = sig[k][gen[k]])
  <2>1. k \in Keys /\ gen'[k] \in 1..MaxGen
    BY <1>3, LifecycleAssumption DEF TypeOK
  <2>2. CASE k \in K
    <3>1. gen'[k] > gen[k] /\ gen'[k] # gen[k]
      BY <1>0, <1>1, <2>1, <2>2, QueueTyped
    <3> QED
      BY <2>1, <3>1 DEF Sent, QueueInv, EmptyAhead
  <2>3. CASE k \notin K
    <3>1. k \in conf /\ k \notin T /\ gen'[k] = gen[k]
      BY <1>1, <2>1, <2>3
    <3> QED
      BY <2>1, <3>1 DEF Sent
  <2> QED
    BY <2>1, <2>2, <2>3
<1>4. EmptyAhead'
  BY <1>2 DEF EmptyAhead
<1>5. ReloadsCounted'
  <2>1. SUFFICES ASSUME NEW k \in conf'
                 PROVE  Len(sig'[k][gen'[k]]) <= reloads + Shutdowns
    BY ShutdownsSame DEF ReloadsCounted
  <2>2. CASE sig'[k][gen'[k]] = <<>>
    BY <1>0, <2>2, ShutdownCount DEF TypeOK
  <2>3. CASE k \in conf /\ sig'[k][gen'[k]] = sig[k][gen[k]]
    BY <2>3 DEF QueueInv, ReloadsCounted
  <2> QED
    BY <1>3, <2>2, <2>3
<1>6. FreezeNeedsReloads'
  BY DEF QueueInv, FreezeNeedsReloads, MutexFree
<1>7. StopsPlaced'
  <2>1. SUFFICES ASSUME ~down, NEW k \in Keys, NEW g \in 1..MaxGen
                 PROVE  /\ OneStop(sig'[k][g])
                        /\ k \in conf' /\ g = gen'[k] => NoStop(sig'[k][g])
    BY DEF StopsPlaced
  <2>2. OneStop(sig[k][g]) /\ (k \in conf /\ g = gen[k] => NoStop(sig[k][g]))
    BY <2>1 DEF QueueInv, StopsPlaced
  <2>3. OneStop(sig'[k][g])
    <3>1. CASE k \in T /\ g = gen[k]
      BY <1>0, <2>2, <3>1, AppendStop, QueueTyped DEF Sent
    <3>2. CASE ~(k \in T /\ g = gen[k])
      BY <2>2, <3>2 DEF Sent
    <3> QED
      BY <3>1, <3>2
  <2>4. ASSUME k \in conf', g = gen'[k] PROVE NoStop(sig'[k][g])
    <3>1. CASE sig'[k][gen'[k]] = <<>>
      BY <2>4, <3>1, EmptyNoStop
    <3>2. CASE k \in conf /\ sig'[k][gen'[k]] = sig[k][gen[k]]
      <4>1. gen[k] \in 1..MaxGen
        BY <1>0, <3>2, QueueTyped
      <4>2. NoStop(sig[k][gen[k]])
        BY <2>1, <3>2, <4>1 DEF QueueInv, StopsPlaced
      <4> QED
        BY <2>4, <3>2, <4>2
    <3> QED
      BY <1>3, <2>4, <3>1, <3>2
  <2> QED
    BY <2>3, <2>4
<1> QED
  BY <1>4, <1>5, <1>6, <1>7 DEF QueueInv

\* A reload adds one Restart to the queue of every channel it is for, and is counted.
LEMMA QueueReload ==
  ASSUME QueueInv, TypeOK', NEW T \in SUBSET conf, Sent(T, "Restart"),
         UNCHANGED <<conf, gen, down>>, reloads' = reloads + 1, held' \in {held, NoCall}
  PROVE  QueueInv'
<1>0. TypeOK /\ reloads \in Nat
  BY DEF QueueInv, TypeOK
<1>1. ASSUME NEW k \in Keys, NEW g \in 1..MaxGen
      PROVE  Len(sig'[k][g]) <= Len(sig[k][g]) + 1
  <2>1. sig[k][g] \in Seq(Signals) /\ Len(sig[k][g]) \in Nat
    BY <1>0, QueueTyped
  <2>2. Len(Append(sig[k][g], "Restart")) = Len(sig[k][g]) + 1
    BY <2>1
  <2>3. sig'[k][g] \in {sig[k][g], Append(sig[k][g], "Restart")}
    BY DEF Sent
  <2> QED
    BY <2>1, <2>2, <2>3
<1>2. EmptyAhead'
  <2>1. \A k \in Keys, g \in 1..MaxGen : g > gen[k] => ~(k \in T /\ g = gen[k])
    BY <1>0, QueueTyped
  <2> QED
    BY <2>1 DEF QueueInv, EmptyAhead, Sent
<1>3. ReloadsCounted'
  <2>1. SUFFICES ASSUME NEW k \in conf
                 PROVE  Len(sig'[k][gen[k]]) <= reloads + 1 + Shutdowns
    BY ShutdownsSame DEF ReloadsCounted
  <2>2. k \in Keys /\ gen[k] \in 1..MaxGen
    BY <1>0, <2>1, LifecycleAssumption DEF TypeOK
  <2>3. Len(sig[k][gen[k]]) <= reloads + Shutdowns /\ Len(sig[k][gen[k]]) \in Nat
    BY <1>0, <2>1, <2>2, QueueTyped DEF QueueInv, ReloadsCounted
  <2>5. Len(sig'[k][gen[k]]) \in Nat /\ Len(sig'[k][gen[k]]) <= Len(sig[k][gen[k]]) + 1
    BY <1>1, <2>2, NextQueueTyped
  <2> QED
    BY <1>0, <2>3, <2>5, ShutdownCount, SMTT(30)
<1>4. FreezeNeedsReloads'
  <2>1. ~MutexFree' => SignalCap <= reloads + Shutdowns
    BY ShutdownCount DEF QueueInv, MutexFree
  <2>2. ~MutexFree' => SignalCap <= reloads' + Shutdowns'
    BY <1>0, <2>1, ShutdownCount, ShutdownsSame, LifecycleAssumption
  <2> QED
    BY <2>2 DEF FreezeNeedsReloads, Shutdowns
<1>5. StopsPlaced'
  <2>1. SUFFICES ASSUME ~down, NEW k \in Keys, NEW g \in 1..MaxGen
                 PROVE  /\ OneStop(sig'[k][g])
                        /\ k \in conf /\ g = gen[k] => NoStop(sig'[k][g])
    BY DEF StopsPlaced
  <2>2. OneStop(sig[k][g]) /\ (k \in conf /\ g = gen[k] => NoStop(sig[k][g]))
    BY <2>1 DEF QueueInv, StopsPlaced
  <2>3. CASE k \in T /\ g = gen[k]
    BY <1>0, <2>2, <2>3, AppendRestart, NoStopIsOneStop, QueueTyped DEF Sent
  <2>4. CASE ~(k \in T /\ g = gen[k])
    BY <2>2, <2>4 DEF Sent
  <2> QED
    BY <2>3, <2>4
<1> QED
  BY <1>2, <1>3, <1>4, <1>5 DEF QueueInv

\* StopAll adds one signal to every locked channel, once.
LEMMA QueueStopAll ==
  ASSUME QueueInv, TypeOK', NEW T \in SUBSET conf, Sent(T, "Stop"),
         UNCHANGED <<conf, gen, reloads>>, ~down, down' = TRUE, held' \in {held, NoCall}
  PROVE  QueueInv'
<1>0. TypeOK /\ reloads \in Nat
  BY DEF QueueInv, TypeOK
<1>2. EmptyAhead'
  <2>1. \A k \in Keys, g \in 1..MaxGen : g > gen[k] => ~(k \in T /\ g = gen[k])
    BY <1>0, QueueTyped
  <2> QED
    BY <2>1 DEF QueueInv, EmptyAhead, Sent
<1>3. ReloadsCounted'
  <2>1. SUFFICES ASSUME NEW k \in conf
                 PROVE  Len(sig'[k][gen[k]]) <= reloads + 1
    BY DEF ReloadsCounted, Shutdowns
  <2>2. k \in Keys /\ gen[k] \in 1..MaxGen
    BY <1>0, <2>1, LifecycleAssumption DEF TypeOK
  <2>3. Len(sig[k][gen[k]]) <= reloads + Shutdowns /\ Len(sig[k][gen[k]]) \in Nat
    BY <1>0, <2>1, <2>2, QueueTyped DEF QueueInv, ReloadsCounted
  <2>4. Len(sig[k][gen[k]]) <= reloads
    BY <1>0, <2>3, ShutdownCount
  <2>5. sig'[k][gen[k]] \in {sig[k][gen[k]], Append(sig[k][gen[k]], "Stop")}
    BY <2>2 DEF Sent
  <2>6. /\ Len(Append(sig[k][gen[k]], "Stop")) = Len(sig[k][gen[k]]) + 1
        /\ Len(sig'[k][gen[k]]) \in Nat
    BY <1>0, <2>2, QueueTyped, NextQueueTyped
  <2> QED
    BY <1>0, <2>3, <2>4, <2>5, <2>6
<1>4. FreezeNeedsReloads'
  <2>1. ~MutexFree' => SignalCap <= reloads
    BY <1>0, ShutdownCount DEF QueueInv, MutexFree
  <2> QED
    BY <1>0, <2>1, LifecycleAssumption DEF FreezeNeedsReloads
<1>5. StopsPlaced'
  BY DEF StopsPlaced
<1> QED
  BY <1>2, <1>3, <1>4, <1>5 DEF QueueInv

LEMMA QueueTake ==
  ASSUME QueueInv, TypeOK', NEW w \in Workers, TakeSignal(w)
  PROVE  QueueInv'
<1>0. TypeOK /\ UNCHANGED <<conf, gen, down, reloads, held>>
  BY SMTT(30) DEF QueueInv, TakeSignal, registry, history
<1>1. ASSUME NEW k \in Keys, NEW g \in 1..MaxGen
      PROVE  \/ sig'[k][g] = sig[k][g]
             \/ sig[k][g] # <<>> /\ sig'[k][g] = Tail(sig[k][g])
  BY <1>0, TakeFacts DEF TakeSignal
<1>2. ASSUME NEW k \in Keys, NEW g \in 1..MaxGen
      PROVE  /\ Len(sig'[k][g]) <= Len(sig[k][g])
             /\ NoStop(sig[k][g]) => NoStop(sig'[k][g])
             /\ OneStop(sig[k][g]) => OneStop(sig'[k][g])
             /\ sig[k][g] = <<>> => sig'[k][g] = <<>>
             /\ Len(sig'[k][g]) \in Nat /\ Len(sig[k][g]) \in Nat
  <2>1. /\ sig[k][g] \in Seq(Signals) /\ Len(sig[k][g]) \in Nat
        /\ sig'[k][g] \in Seq(Signals) /\ Len(sig'[k][g]) \in Nat
    BY <1>0, QueueTyped, NextQueueTyped
  <2> QED
    <3>1. CASE sig'[k][g] = sig[k][g]
      BY <2>1, <3>1
    <3>2. CASE sig[k][g] # <<>> /\ sig'[k][g] = Tail(sig[k][g])
      BY <2>1, <3>2, TailStop
    <3> QED
      BY <1>1, <3>1, <3>2
<1>3. EmptyAhead'
  BY <1>0, <1>2 DEF QueueInv, EmptyAhead
<1>4. ReloadsCounted'
  <2>1. SUFFICES ASSUME NEW k \in conf
                 PROVE  Len(sig'[k][gen[k]]) <= reloads + Shutdowns
    BY <1>0, ShutdownsSame DEF ReloadsCounted
  <2>2. k \in Keys /\ gen[k] \in 1..MaxGen /\ reloads \in Nat
    BY <1>0, <2>1, LifecycleAssumption DEF TypeOK
  <2>3. Len(sig[k][gen[k]]) <= reloads + Shutdowns
    BY <2>1 DEF QueueInv, ReloadsCounted
  <2> QED
    BY <1>2, <2>2, <2>3, ShutdownCount, SMTT(30)
<1>5. FreezeNeedsReloads'
  BY <1>0 DEF QueueInv, FreezeNeedsReloads, MutexFree
<1>6. StopsPlaced'
  BY <1>0, <1>2 DEF QueueInv, StopsPlaced
<1> QED
  BY <1>3, <1>4, <1>5, <1>6 DEF QueueInv

LEMMA QueueApi == QueueInv /\ TypeOK' /\ Api => QueueInv'
<1> SUFFICES ASSUME QueueInv, TypeOK', Api PROVE QueueInv'
  OBVIOUS
<1>0. /\ TypeOK /\ runLock \in SUBSET conf
      /\ conf \subseteq {k \in Keys : k[1] \in streams}
      /\ \A s \in Streams : ChannelsOf(s) \in SUBSET conf
      /\ {} \in SUBSET conf /\ {} \in SUBSET {} /\ {} \in SUBSET Keys
      /\ \A s \in Streams : StopTargets(ChannelsOf(s)) \in SUBSET ChannelsOf(s)
      /\ \A k \in Keys : StopTargets({k}) \in SUBSET {k}
      /\ "Stop" \in Signals /\ "Restart" \in Signals
  BY DEF QueueInv, TypeOK, ChannelsOf, StopTargets, Signals
<1>s. ASSUME NEW T \in SUBSET conf, NEW s \in Signals, Send(T, s) PROVE Sent(T, s)
  <2>1. TypeOK
    BY <1>0
  <2>2. \A k \in Keys, g \in 1..MaxGen :
          sig'[k][g] = IF k \in T /\ g = gen[k] THEN Append(sig[k][g], s) ELSE sig[k][g]
    BY <1>s, <2>1, SendFacts
  <2> QED
    BY <2>2, Zenon DEF Sent
<1>e. UNCHANGED sig => Sent({}, "Stop")
  BY DEF Sent
<1>p. \A call, T : Proceeds(call, T) => held' \in {held, NoCall}
  BY DEF Proceeds
<1>1. ASSUME NEW s \in Streams, NEW K \in SUBSET ({s} \X Channels), NEW od \in SUBSET K,
             StreamAdd(s, K, od)
      PROVE  QueueInv'
  <2>1. K \in SUBSET Keys /\ \A k \in K : k[1] = s
    BY StreamChannelSets
  <2>2. /\ Install({}, K, od, LocksOf(K, od)) /\ s \notin streams
        /\ UNCHANGED <<sig, down, reloads, held>>
    BY <1>1 DEF StreamAdd
  <2>3. K \cap conf \subseteq {} /\ Sent({}, "Stop") /\ held' \in {held, NoCall}
    BY <1>0, <1>e, <2>1, <2>2
  <2> QED
    BY <1>0, <2>1, <2>2, <2>3, QueueInstall
<1>2. ASSUME NEW s \in Streams, NEW K \in SUBSET ({s} \X Channels), NEW od \in SUBSET K,
             StreamEdit(s, K, od)
      PROVE  QueueInv'
  <2> DEFINE call == [op |-> "StreamEdit", at |-> ChannelsOf(s), new |-> K, od |-> od]
             T == StopTargets(ChannelsOf(s))
  <2>1. K \in SUBSET Keys /\ \A k \in K : k[1] = s
    BY StreamChannelSets
  <2>t. T \in SUBSET conf /\ T \in SUBSET ChannelsOf(s)
    BY <1>0
  <2>2. CASE Blocks(call, T)
    BY <2>2, <2>t, QueueBlocks
  <2>3. CASE /\ Proceeds(call, T) /\ Send(T, "Stop")
             /\ Install(ChannelsOf(s), K, od, LocksOf(K, od)) /\ UNCHANGED <<down, reloads>>
    <3>1. K \cap conf \subseteq ChannelsOf(s)
      BY <2>1 DEF ChannelsOf
    <3>2. Sent(T, "Stop") /\ held' \in {held, NoCall}
      BY <1>0, <1>s, <1>p, <2>3, <2>t
    <3> HIDE DEF T, call
    <3> QED
      BY <1>0, <2>1, <2>t, <2>3, <3>1, <3>2, QueueInstall
  <2> QED
    BY <1>2, <2>2, <2>3 DEF StreamEdit
<1>3. ASSUME NEW s \in Streams, StreamDelete(s)
      PROVE  QueueInv'
  <2> DEFINE call == [op |-> "StreamDelete", at |-> ChannelsOf(s), new |-> {}, od |-> {}]
             T == StopTargets(ChannelsOf(s))
  <2>t. T \in SUBSET conf /\ T \in SUBSET ChannelsOf(s)
    BY <1>0
  <2>2. CASE Blocks(call, T)
    BY <2>2, <2>t, QueueBlocks
  <2>3. CASE /\ Proceeds(call, T) /\ Send(T, "Stop")
             /\ Install(ChannelsOf(s), {}, {}, {}) /\ UNCHANGED <<down, reloads>>
    <3>2. Sent(T, "Stop") /\ held' \in {held, NoCall} /\ {} \cap conf \subseteq ChannelsOf(s)
      BY <1>0, <1>s, <1>p, <2>3, <2>t
    <3> HIDE DEF T, call
    <3> QED
      BY <1>0, <2>t, <2>3, <3>2, QueueInstall
  <2> QED
    BY <1>3, <2>2, <2>3 DEF StreamDelete, history
<1>4. ASSUME NEW s \in Streams, StreamReload(s)
      PROVE  QueueInv'
  <2> DEFINE call == [op |-> "StreamReload", at |-> ChannelsOf(s), new |-> {}, od |-> {}]
             T == ChannelsOf(s) \cap runLock
  <2>t. T \in SUBSET conf
    BY <1>0
  <2>2. CASE Blocks(call, T)
    BY <2>2, <2>t, QueueBlocks
  <2>3. CASE /\ Proceeds(call, T) /\ Send(T, "Restart") /\ reloads' = reloads + 1
             /\ UNCHANGED <<conf, gen, down>>
    <3>2. Sent(T, "Restart") /\ held' \in {held, NoCall}
      BY <1>0, <1>s, <1>p, <2>3, <2>t
    <3> HIDE DEF T, call
    <3> QED
      BY <2>t, <2>3, <3>2, QueueReload
  <2> QED
    BY <1>4, <2>2, <2>3 DEF StreamReload, registry
<1>5. ASSUME NEW k \in Keys, NEW od \in SUBSET {k}, ChannelAdd(k, od)
      PROVE  QueueInv'
  <2>1. /\ Install({}, {k}, od, {}) /\ k \notin conf
        /\ UNCHANGED <<sig, down, reloads, held>>
    BY <1>5 DEF ChannelAdd
  <2>2. /\ {k} \in SUBSET Keys /\ {k} \cap conf \subseteq {} /\ Sent({}, "Stop")
        /\ held' \in {held, NoCall}
    BY <1>e, <2>1
  <2> QED
    BY <1>0, <2>1, <2>2, QueueInstall
<1>6. ASSUME NEW k \in Keys, NEW od \in SUBSET {k}, ChannelEdit(k, od)
      PROVE  QueueInv'
  <2> DEFINE call == [op |-> "ChannelEdit", at |-> {k}, new |-> {k}, od |-> od]
             T == StopTargets({k})
  <2>t. /\ T \in SUBSET conf /\ T \in SUBSET {k} /\ {k} \in SUBSET conf /\ {k} \in SUBSET Keys
        /\ {k} \cap conf \subseteq {k}
    BY <1>0, <1>6 DEF ChannelEdit
  <2>2. CASE Blocks(call, T)
    BY <2>2, <2>t, QueueBlocks
  <2>3. CASE /\ Proceeds(call, T) /\ Send(T, "Stop")
             /\ Install({k}, {k}, od, {}) /\ UNCHANGED <<down, reloads>>
    <3>2. Sent(T, "Stop") /\ held' \in {held, NoCall}
      BY <1>0, <1>s, <1>p, <2>3, <2>t
    <3> HIDE DEF T, call
    <3> QED
      BY <2>t, <2>3, <3>2, QueueInstall
  <2> QED
    BY <1>6, <2>2, <2>3 DEF ChannelEdit
<1>7. ASSUME NEW k \in Keys, ChannelDelete(k)
      PROVE  QueueInv'
  <2> DEFINE call == [op |-> "ChannelDelete", at |-> {k}, new |-> {}, od |-> {}]
             T == StopTargets({k})
  <2>t. /\ T \in SUBSET conf /\ T \in SUBSET {k} /\ {k} \in SUBSET conf
        /\ {} \cap conf \subseteq {k}
    BY <1>0, <1>7 DEF ChannelDelete
  <2>2. CASE Blocks(call, T)
    BY <2>2, <2>t, QueueBlocks
  <2>3. CASE /\ Proceeds(call, T) /\ Send(T, "Stop")
             /\ Install({k}, {}, {}, {}) /\ UNCHANGED <<down, reloads>>
    <3>2. Sent(T, "Stop") /\ held' \in {held, NoCall}
      BY <1>0, <1>s, <1>p, <2>3, <2>t
    <3> HIDE DEF T, call
    <3> QED
      BY <1>0, <2>t, <2>3, <3>2, QueueInstall
  <2> QED
    BY <1>7, <2>2, <2>3 DEF ChannelDelete, history
<1>8. ASSUME NEW k \in Keys, ChannelReload(k)
      PROVE  QueueInv'
  <2> DEFINE call == [op |-> "ChannelReload", at |-> {k}, new |-> {}, od |-> {}]
  <2>t. {k} \in SUBSET conf
    BY <1>8 DEF ChannelReload
  <2>2. CASE Blocks(call, {k})
    BY <2>2, <2>t, QueueBlocks
  <2>3. CASE /\ Proceeds(call, {k}) /\ Send({k}, "Restart") /\ reloads' = reloads + 1
             /\ UNCHANGED <<conf, gen, down>>
    <3>2. Sent({k}, "Restart") /\ held' \in {held, NoCall}
      BY <1>0, <1>s, <1>p, <2>3, <2>t
    <3> QED
      BY <2>t, <2>3, <3>2, QueueReload
  <2> QED
    BY <1>8, <2>2, <2>3 DEF ChannelReload, registry
<1>9. ASSUME StopAll
      PROVE  QueueInv'
  <2> DEFINE call == [op |-> "StopAll", at |-> conf, new |-> {}, od |-> {}]
  <2>2. CASE Blocks(call, runLock)
    BY <1>0, <2>2, QueueBlocks
  <2>3. CASE /\ Proceeds(call, runLock) /\ Send(runLock, "Stop") /\ down' = TRUE
             /\ UNCHANGED <<conf, gen, reloads>>
    <3>2. Sent(runLock, "Stop") /\ held' \in {held, NoCall} /\ ~down
      BY <1>0, <1>s, <1>p, <1>9, <2>3 DEF StopAll
    <3> QED
      BY <1>0, <2>3, <3>2, QueueStopAll
  <2> QED
    BY <1>9, <2>2, <2>3 DEF StopAll, registry
<1>10. ASSUME StreamChannelRunAll
       PROVE  QueueInv'
  BY <1>10, QueueSame DEF StreamChannelRunAll
<1> QED
  BY <1>1, <1>2, <1>3, <1>4, <1>5, <1>6, <1>7, <1>8, <1>9, <1>10 DEF Api

LEMMA QueueNext == QueueInv /\ [Next]_vars => QueueInv'
<1> SUFFICES ASSUME QueueInv, [Next]_vars PROVE QueueInv'
  OBVIOUS
<1>1. TypeOK'
  BY TypeNext DEF QueueInv
<1> DEFINE Same == UNCHANGED <<sig, conf, gen, down, reloads, held>>
<1>2. CASE Same
  BY <1>1, <1>2, QueueSame
<1> USE DEF registry, history
<1>3. UNCHANGED vars => Same
  BY DEF vars
<1>4. ASSUME NEW v \in Viewers, Viewer(v) PROVE Same
  BY <1>4 DEF Viewer, StreamChannelExist, StreamChannelRun, ClientAdd, Leave
<1>5. ASSUME NEW k \in Keys, AckExpires(k) PROVE Same
  BY <1>5 DEF AckExpires
<1>6. ASSUME NEW w \in Workers, Worker(w) PROVE Same \/ TakeSignal(w)
  BY <1>6 DEF Worker, Control, CheckClients, DialFails, DialSucceeds, OpenMuxer, ClientsTimer, SourceLost,
              Packet, Cast, CloseSession, Wake, StreamChannelUnlock
<1> HIDE DEF Same
<1> QED
  BY <1>1, <1>2, <1>3, <1>4, <1>5, <1>6, QueueApi, QueueTake DEF Next

\* The registry can freeze only after as many reloads (and the one StopAll) as `signals'
\* has room for, whatever was added, edited, deleted and watched in between.
THEOREM FreezeNeedsReloadsCorrect == Spec => []FreezeNeedsReloads
<1>1. Init => QueueInv
  BY QueueInit
<1>2. QueueInv /\ [Next]_vars => QueueInv'
  BY QueueNext
<1>3. QueueInv => FreezeNeedsReloads
  BY DEF QueueInv
<1> QED
  BY <1>1, <1>2, <1>3, PTL DEF Spec

\* Until the shutdown no Stop ever waits where the worker of a configured channel, or of
\* the successor of a replaced one, would read it.
THEOREM StopsOnlyForReplacedCorrect == Spec => []StopsOnlyForReplaced
<1>1. Init => QueueInv
  BY QueueInit
<1>2. QueueInv /\ [Next]_vars => QueueInv'
  BY QueueNext
<1>3. QueueInv => StopsOnlyForReplaced
  BY StopsPlacedIs DEF QueueInv
<1> QED
  BY <1>1, <1>2, <1>3, PTL DEF Spec
-----------------------------------------------------------------------------
(* A set runLock has a worker that will give it back.                      *)

Loop == {"check", "dial", "open", "select", "cast", "closing", "sleep"}

\* A free slot carries no copy of a channel and no return status, and a worker inside the
\* loop has a copy.
CopyTaken ==
  \A w \in Workers :
    /\ wpc[w] = "free" => wopt[w] = 0 /\ wret[w] = 0
    /\ wpc[w] \in Loop => wopt[w] # 0

\* w serves the present incarnation of k, or is about to copy it, and is not leaving on a Stop
Guards(w, k) ==
  w \in Workers /\ wpc[w] # "free" /\ wkey[w] = k /\ wret[w] # 2 /\ wopt[w] \in {0, gen[k]}

LockGuarded == ~down => \A k \in runLock : \E w \in Workers : Guards(w, k)

GuardInv == QueueInv /\ CopyTaken /\ LockGuarded

LEMMA GuardInit == Init => GuardInv
<1> SUFFICES ASSUME Init PROVE GuardInv
  OBVIOUS
<1>1. QueueInv
  BY QueueInit
<1>2. CopyTaken
  BY DEF Init, CopyTaken, Loop
<1>3. LockGuarded
  BY DEF Init, LockGuarded
<1> QED
  BY <1>1, <1>2, <1>3 DEF GuardInv

\* A step keeps the invariant if it keeps the guards of the channels that stay locked.
LEMMA GuardKept ==
  ASSUME GuardInv, QueueInv', CopyTaken', ~down' => ~down,
         \A k \in runLock' : k \in runLock /\ \A w \in Workers : Guards(w, k) /\ ~down => Guards(w, k)'
  PROVE  GuardInv'
  BY DEF GuardInv, LockGuarded

\* Steps of viewers, of time, and blocked calls.
LEMMA GuardSame ==
  ASSUME GuardInv, QueueInv', UNCHANGED workers, runLock' = runLock, gen' = gen, ~down' => ~down
  PROVE  GuardInv'
<1>1. CopyTaken'
  BY DEF GuardInv, CopyTaken, workers, Loop
<1>2. \A k \in runLock, w \in Workers : Guards(w, k) => Guards(w, k)'
  BY DEF Guards, workers
<1> QED
  BY <1>1, <1>2, GuardKept

\* The workers that S starts guard the channels of S.
LEMMA GuardSpawn ==
  ASSUME TypeOK, CopyTaken, NEW S \in SUBSET Keys, NEW U, Spawn(S, U)
  PROVE  /\ CopyTaken'
         /\ \A k \in S : \E w \in Workers : Guards(w, k)'
         /\ \A w \in Workers, k \in Keys : Guards(w, k) /\ gen'[k] = gen[k] => Guards(w, k)'
<1>1. wopt' = wopt /\ wret' = wret
  BY SpawnFacts
<1>2. \A w \in Workers : wpc[w] # "free" => wpc'[w] = wpc[w] /\ wkey'[w] = wkey[w]
  BY SpawnFacts
<1>3. \A w \in Workers : wpc[w] = "free" => wpc'[w] \in {"free", "control"}
  BY SpawnFacts
<1>4. \A k \in S : \E w \in Workers : wpc[w] = "free" /\ wpc'[w] = "control" /\ wkey'[w] = k
  BY SpawnFacts
<1>5. CopyTaken'
  BY <1>1, <1>2, <1>3 DEF CopyTaken, Loop
<1>6. \A k \in S : \E w \in Workers : Guards(w, k)'
  BY <1>1, <1>4 DEF CopyTaken, Guards
<1>7. \A w \in Workers, k \in Keys : Guards(w, k) /\ gen'[k] = gen[k] => Guards(w, k)'
  BY <1>1, <1>2 DEF Guards
<1> QED
  BY <1>5, <1>6, <1>7

\* (Re)configuring: a channel stored locked gets a new worker in the same step.
LEMMA GuardInstall ==
  ASSUME GuardInv, QueueInv', NEW R \in SUBSET conf, NEW K \in SUBSET Keys, K \cap conf \subseteq R,
         NEW od, NEW L, Install(R, K, od, L), ~down' => ~down,
         NEW S \in SUBSET Keys, L \subseteq S, NEW U, Spawn(S, U)
  PROVE  GuardInv'
<1>0. TypeOK /\ CopyTaken /\ LockGuarded
  BY DEF GuardInv, QueueInv
<1>1. CopyTaken'
  BY <1>0, GuardSpawn
<1>2. ASSUME ~down, NEW k \in runLock' PROVE \E w \in Workers : Guards(w, k)'
  <2>1. k \in L \/ (k \in runLock /\ k \notin R)
    BY DEF Install
  <2>2. CASE k \in L
    BY <1>0, <2>2, GuardSpawn
  <2>3. CASE k \in runLock /\ k \notin R
    <3>1. k \in Keys /\ k \notin K
      BY <1>0, <2>3 DEF TypeOK
    <3>2. gen'[k] = gen[k]
      BY <3>1 DEF Install
    <3>3. PICK w \in Workers : Guards(w, k)
      BY <1>0, <1>2, <2>3 DEF LockGuarded
    <3> QED
      BY <1>0, <3>1, <3>2, <3>3, GuardSpawn
  <2> QED
    BY <2>1, <2>2, <2>3
<1> QED
  BY <1>1, <1>2 DEF GuardInv, LockGuarded

LEMMA GuardRemove ==
  ASSUME GuardInv, QueueInv', NEW R \in SUBSET conf, NEW od, Install(R, {}, od, {}),
         ~down' => ~down, UNCHANGED workers
  PROVE  GuardInv'
<1>1. CopyTaken'
  BY DEF GuardInv, CopyTaken, workers, Loop
<1>2. \A k \in runLock' : k \in runLock /\ gen'[k] = gen[k]
  BY DEF Install, GuardInv, QueueInv, TypeOK
<1>3. \A k \in runLock' : \A w \in Workers : Guards(w, k) => Guards(w, k)'
  BY <1>2 DEF Guards, workers
<1> QED
  BY <1>1, <1>2, <1>3, GuardKept

LEMMA GuardStart ==
  ASSUME GuardInv, QueueInv', NEW S \in SUBSET Keys, NEW U, Spawn(S, U),
         gen' = gen, down' = down, runLock' = runLock \cup S
  PROVE  GuardInv'
<1>0. TypeOK /\ CopyTaken /\ LockGuarded /\ runLock \subseteq Keys
  BY DEF GuardInv, QueueInv, TypeOK
<1>1. CopyTaken'
  BY <1>0, GuardSpawn
<1>2. ASSUME ~down, NEW k \in runLock' PROVE \E w \in Workers : Guards(w, k)'
  <2>1. CASE k \in S
    BY <1>0, <2>1, GuardSpawn
  <2>2. CASE k \in runLock
    <3>1. PICK w \in Workers : Guards(w, k)
      BY <1>0, <1>2, <2>2 DEF LockGuarded
    <3> QED
      BY <1>0, <2>2, <3>1, GuardSpawn
  <2> QED
    BY <2>1, <2>2
<1> QED
  BY <1>1, <1>2 DEF GuardInv, LockGuarded

LEMMA GuardApi == GuardInv /\ QueueInv' /\ Api => GuardInv'
<1> SUFFICES ASSUME GuardInv, QueueInv', Api PROVE GuardInv'
  OBVIOUS
<1>0. /\ conf \subseteq {k \in Keys : k[1] \in streams} /\ onDemand \subseteq conf
      /\ \A s \in Streams : ChannelsOf(s) \in SUBSET conf
      /\ {} \in SUBSET conf /\ {} \in SUBSET Keys
  BY DEF GuardInv, QueueInv, TypeOK, ChannelsOf
<1>b. ASSUME NEW call, NEW T, Blocks(call, T) PROVE GuardInv'
  BY <1>b, GuardSame DEF Blocks, registry, history
<1>1. ASSUME NEW s \in Streams, NEW K \in SUBSET ({s} \X Channels), NEW od \in SUBSET K,
             StreamAdd(s, K, od)
      PROVE  GuardInv'
  <2>1. K \in SUBSET Keys /\ \A k \in K : k[1] = s
    BY StreamChannelSets
  <2>2. /\ Install({}, K, od, K \ od) /\ Spawn(K \ od, {}) /\ s \notin streams /\ down' = down
    BY <1>1 DEF StreamAdd, LocksOf
  <2>3. K \cap conf \subseteq {} /\ K \ od \in SUBSET Keys /\ K \ od \subseteq K \ od
    BY <1>0, <2>1, <2>2
  <2> QED
    BY <1>0, <2>1, <2>2, <2>3, GuardInstall
<1>2. ASSUME NEW s \in Streams, NEW K \in SUBSET ({s} \X Channels), NEW od \in SUBSET K,
             StreamEdit(s, K, od)
      PROVE  GuardInv'
  <2>1. K \in SUBSET Keys /\ \A k \in K : k[1] = s
    BY StreamChannelSets
  <2>2. \/ \E call, T : Blocks(call, T)
        \/ Install(ChannelsOf(s), K, od, K \ od) /\ Spawn(K \ od, {}) /\ down' = down
    BY <1>2 DEF StreamEdit, LocksOf
  <2>3. K \cap conf \subseteq ChannelsOf(s) /\ K \ od \in SUBSET Keys /\ K \ od \subseteq K \ od
    BY <2>1 DEF ChannelsOf
  <2> QED
    BY <1>0, <1>b, <2>1, <2>2, <2>3, GuardInstall
<1>3. ASSUME NEW s \in Streams, StreamDelete(s) PROVE GuardInv'
  <2>1. \/ \E call, T : Blocks(call, T)
        \/ Install(ChannelsOf(s), {}, {}, {}) /\ UNCHANGED workers /\ down' = down
    BY <1>3 DEF StreamDelete, history
  <2> QED
    BY <1>0, <1>b, <2>1, GuardRemove
<1>4. ASSUME NEW s \in Streams, StreamReload(s) PROVE GuardInv'
  BY <1>4, <1>b, GuardSame DEF StreamReload, registry
<1>5. ASSUME NEW k \in Keys, NEW od \in SUBSET {k}, ChannelAdd(k, od) PROVE GuardInv'
  <2>1. /\ Install({}, {k}, od, {}) /\ Spawn({k} \ od, {k} \ od) /\ k \notin conf
        /\ down' = down
    BY <1>5 DEF ChannelAdd
  <2>2. /\ {k} \in SUBSET Keys /\ {k} \cap conf \subseteq {} /\ {} \subseteq {k} \ od
        /\ {k} \ od \in SUBSET Keys
    BY <2>1
  <2> QED
    BY <1>0, <2>1, <2>2, GuardInstall
<1>6. ASSUME NEW k \in Keys, NEW od \in SUBSET {k}, ChannelEdit(k, od) PROVE GuardInv'
  <2>1. \/ \E call, T : Blocks(call, T)
        \/ Install({k}, {k}, od, {}) /\ Spawn({k} \ od, {k} \ od) /\ down' = down
    BY <1>6 DEF ChannelEdit
  <2>2. /\ {k} \in SUBSET Keys /\ {k} \in SUBSET conf /\ {k} \cap conf \subseteq {k}
        /\ {} \subseteq {k} \ od /\ {k} \ od \in SUBSET Keys
    BY <1>6 DEF ChannelEdit
  <2> QED
    BY <1>b, <2>1, <2>2, GuardInstall
<1>7. ASSUME NEW k \in Keys, ChannelDelete(k) PROVE GuardInv'
  <2>1. \/ \E call, T : Blocks(call, T)
        \/ Install({k}, {}, {}, {}) /\ UNCHANGED workers /\ down' = down
    BY <1>7 DEF ChannelDelete, history
  <2>2. {k} \in SUBSET conf
    BY <1>7 DEF ChannelDelete
  <2> QED
    BY <1>b, <2>1, <2>2, GuardRemove
<1>8. ASSUME NEW k \in Keys, ChannelReload(k) PROVE GuardInv'
  BY <1>8, <1>b, GuardSame DEF ChannelReload, registry
<1>9. ASSUME StopAll PROVE GuardInv'
  BY <1>9, <1>b, GuardSame DEF StopAll, registry
<1>10. ASSUME StreamChannelRunAll PROVE GuardInv'
  <2>1. /\ Spawn(conf \ onDemand, (conf \ onDemand) \cap runLock)
        /\ runLock' = runLock \cup (conf \ onDemand) /\ gen' = gen /\ down' = down
        /\ conf \ onDemand \in SUBSET Keys
    BY <1>0, <1>10 DEF StreamChannelRunAll
  <2> QED
    BY <2>1, GuardStart
<1> QED
  BY <1>1, <1>2, <1>3, <1>4, <1>5, <1>6, <1>7, <1>8, <1>9, <1>10 DEF Api

LEMMA GuardViewer == GuardInv /\ QueueInv' /\ (\E v \in Viewers : Viewer(v)) => GuardInv'
<1> SUFFICES ASSUME GuardInv, QueueInv', NEW v \in Viewers, Viewer(v) PROVE GuardInv'
  OBVIOUS
<1>1. ASSUME NEW k \in Keys, StreamChannelExist(v, k) PROVE GuardInv'
  BY <1>1, GuardSame DEF StreamChannelExist, registry, history
<1>2. CASE StreamChannelRun(v)
  <2>1. CASE CanRun(vkey[v])
    <3>1. /\ Spawn({vkey[v]}, {}) /\ runLock' = runLock \cup {vkey[v]} /\ gen' = gen
          /\ down' = down /\ {vkey[v]} \in SUBSET Keys
      BY <1>2, <2>1 DEF StreamChannelRun, CanRun, GuardInv, QueueInv, TypeOK
    <3> QED
      BY <3>1, GuardStart
  <2>2. CASE ~CanRun(vkey[v])
    BY <1>2, <2>2, GuardSame DEF StreamChannelRun
  <2> QED
    BY <2>1, <2>2
<1>3. CASE ClientAdd(v)
  BY <1>3, GuardSame DEF ClientAdd, history
<1>4. CASE Leave(v)
  BY <1>4, GuardSame DEF Leave, history
<1> QED
  BY <1>1, <1>2, <1>3, <1>4 DEF Viewer

\* What a step of worker w has to show.
LEMMA GuardOwn ==
  ASSUME GuardInv, QueueInv', NEW w \in Workers, gen' = gen, down' = down, runLock' = runLock,
         \A u \in Workers \ {w} :
           wpc'[u] = wpc[u] /\ wkey'[u] = wkey[u] /\ wopt'[u] = wopt[u] /\ wret'[u] = wret[u],
         wpc'[w] = "free" => wopt'[w] = 0 /\ wret'[w] = 0,
         wpc'[w] \in Loop => wopt'[w] # 0,
         \A k \in runLock : Guards(w, k) /\ ~down => Guards(w, k)'
  PROVE  GuardInv'
<1>1. CopyTaken'
  BY DEF GuardInv, CopyTaken
<1>2. \A k \in runLock : \A u \in Workers : Guards(u, k) /\ ~down => Guards(u, k)'
  BY DEF Guards
<1> QED
  BY <1>1, <1>2, GuardKept

\* A step of w that only moves it inside the loop, keeping its copy.
LEMMA GuardMove ==
  ASSUME GuardInv, QueueInv', NEW w \in Workers, NEW pc, MoveTo(w, pc),
         wpc[w] \in Loop, pc \in Loop \cup {"control", "unlock"},
         UNCHANGED <<wkey, wopt, gen, down, runLock>>,
         \A u \in Workers \ {w} : wret'[u] = wret[u],
         \A k \in runLock : Guards(w, k) /\ ~down => wret'[w] # 2
  PROVE  GuardInv'
<1>1. wpc \in [Workers -> WorkerPC]
  BY DEF GuardInv, QueueInv, TypeOK
<1>2. wpc'[w] = pc /\ \A u \in Workers \ {w} : wpc'[u] = wpc[u]
  BY <1>1 DEF MoveTo
<1>3. pc # "free"
  BY DEF Loop
<1>4. wopt'[w] # 0
  BY DEF GuardInv, CopyTaken
<1>5. \A k \in runLock : Guards(w, k) /\ ~down => Guards(w, k)'
  BY <1>2, <1>3 DEF Guards
<1> QED
  BY <1>2, <1>3, <1>4, <1>5, GuardOwn

\* A worker that exits guards nothing that stays locked.
LEMMA GuardExit ==
  ASSUME GuardInv, QueueInv', NEW w \in Workers, Exits(w), gen' = gen, down' = down,
         runLock' \subseteq runLock, \A k \in runLock' : ~Guards(w, k)
  PROVE  GuardInv'
<1>1. /\ wpc \in [Workers -> WorkerPC] /\ wkey \in [Workers -> Keys]
      /\ wopt \in [Workers -> 0..MaxGen] /\ wret \in [Workers -> 0..2]
  BY DEF GuardInv, QueueInv, TypeOK
<1>2. /\ wpc'[w] = "free" /\ wopt'[w] = 0 /\ wret'[w] = 0
      /\ \A u \in Workers \ {w} :
           wpc'[u] = wpc[u] /\ wkey'[u] = wkey[u] /\ wopt'[u] = wopt[u] /\ wret'[u] = wret[u]
  BY <1>1 DEF Exits, MoveTo
<1>3. CopyTaken'
  BY <1>2 DEF GuardInv, CopyTaken, Loop
<1>4. \A k \in runLock' : \A u \in Workers : Guards(u, k) => Guards(u, k)'
  BY <1>2 DEF Guards
<1> QED
  BY <1>3, <1>4, GuardKept

LEMMA GuardWorker == GuardInv /\ QueueInv' /\ (\E w \in Workers : Worker(w)) => GuardInv'
<1> SUFFICES ASSUME GuardInv, QueueInv', NEW w \in Workers, Worker(w) PROVE GuardInv'
  OBVIOUS
<1>0. TypeOK /\ runLock \subseteq conf
  BY DEF GuardInv, QueueInv, TypeOK
<1>r. \A k : Guards(w, k) => wret[w] # 2
  BY DEF Guards
<1>1. CASE Control(w)
  <2>1. /\ wpc[w] = "control" /\ UNCHANGED <<wkey, wret, gen, down, runLock>>
    BY <1>1 DEF Control, registry, history
  <2>2. CASE wkey[w] \in conf
    <3>1. /\ wpc' = [wpc EXCEPT ![w] = "check"]
          /\ wopt' = [wopt EXCEPT ![w] = gen[wkey[w]]]
      BY <1>1, <2>2 DEF Control, MoveTo
    <3>2. /\ wpc'[w] = "check" /\ wopt'[w] = gen[wkey[w]] /\ gen[wkey[w]] # 0
          /\ \A u \in Workers \ {w} : wpc'[u] = wpc[u] /\ wopt'[u] = wopt[u]
      BY <1>0, <2>2, <3>1 DEF TypeOK
    <3>3. \A k \in runLock : Guards(w, k) => Guards(w, k)'
      BY <2>1, <3>2 DEF Guards
    <3> QED
      BY <2>1, <3>2, <3>3, GuardOwn
  <2>3. CASE wkey[w] \notin conf
    <3>1. wpc' = [wpc EXCEPT ![w] = "unlock"] /\ wopt' = wopt
      BY <1>1, <2>3 DEF Control, MoveTo
    <3>2. wpc'[w] = "unlock" /\ \A u \in Workers \ {w} : wpc'[u] = wpc[u]
      BY <1>0, <3>1 DEF TypeOK
    <3>3. \A k \in runLock : ~Guards(w, k)
      BY <1>0, <2>3 DEF Guards
    <3>4. "unlock" \notin Loop
      BY DEF Loop
    <3> QED
      BY <2>1, <3>1, <3>2, <3>3, <3>4, GuardOwn
  <2> QED
    BY <2>2, <2>3
<1> USE DEF registry, history
<1>2. CASE CheckClients(w)
  <2>1. /\ wpc[w] \in Loop /\ UNCHANGED <<wkey, wopt, wret, gen, down, runLock>>
        /\ MoveTo(w, "unlock") \/ MoveTo(w, "dial")
    BY <1>2 DEF CheckClients, Loop
  <2>2. "unlock" \in Loop \cup {"control", "unlock"} /\ "dial" \in Loop \cup {"control", "unlock"}
    BY DEF Loop
  <2> QED
    BY <1>r, <2>1, <2>2, GuardMove
<1>3. CASE DialFails(w)
  <2>1. /\ wpc[w] \in Loop /\ UNCHANGED <<wkey, wopt, wret, gen, down, runLock>>
        /\ MoveTo(w, "sleep") /\ "sleep" \in Loop \cup {"control", "unlock"}
    BY <1>3 DEF DialFails, Loop
  <2> QED
    BY <1>r, <2>1, GuardMove
<1>4. CASE DialSucceeds(w)
  <2>1. /\ wpc[w] \in Loop /\ UNCHANGED <<wkey, wopt, wret, gen, down, runLock>>
        /\ MoveTo(w, "open") /\ "open" \in Loop \cup {"control", "unlock"}
    BY <1>4 DEF DialSucceeds, Loop
  <2> QED
    BY <1>r, <2>1, GuardMove
<1>c. ASSUME NEW status \in {0, 1}, Returns(w, status), wpc[w] = "select",
             UNCHANGED <<wkey, wopt, gen, down, runLock>>
      PROVE  GuardInv'
  <2>1. /\ MoveTo(w, "closing") /\ wret' = [wret EXCEPT ![w] = status]
        /\ wpc[w] \in Loop /\ "closing" \in Loop \cup {"control", "unlock"}
    BY <1>c DEF Returns, Loop
  <2>2. wret'[w] # 2 /\ \A u \in Workers \ {w} : wret'[u] = wret[u]
    BY <1>0, <2>1 DEF TypeOK
  <2> QED
    BY <1>c, <2>1, <2>2, GuardMove
<1>5. CASE ClientsTimer(w)
  BY <1>5, <1>c DEF ClientsTimer
<1>6. CASE SourceLost(w)
  BY <1>6, <1>c DEF SourceLost
<1>7. CASE TakeSignal(w)
  <2> DEFINE queue == sig[wkey[w]][wopt[w]]
  <2>1. /\ wpc[w] = "select" /\ queue # <<>> /\ UNCHANGED <<wkey, wopt, gen, down, runLock>>
        /\ Returns(w, IF Head(queue) = "Stop" THEN 2 ELSE 0)
    BY <1>7 DEF TakeSignal, Obeys
  <2>2. /\ MoveTo(w, "closing") /\ wpc[w] \in Loop
        /\ wret' = [wret EXCEPT ![w] = IF Head(queue) = "Stop" THEN 2 ELSE 0]
        /\ "closing" \in Loop \cup {"control", "unlock"}
    BY <2>1 DEF Returns, Loop
  <2>3. /\ wret'[w] = (IF Head(queue) = "Stop" THEN 2 ELSE 0)
        /\ \A u \in Workers \ {w} : wret'[u] = wret[u]
    BY <1>0, <2>2 DEF TypeOK
  <2>4. ASSUME NEW k \in runLock, Guards(w, k), ~down PROVE wret'[w] # 2
    <3>1. wopt[w] # 0
      BY <2>2 DEF GuardInv, CopyTaken
    <3>2. wkey[w] = k /\ wopt[w] = gen[k] /\ k \in conf /\ k \in Keys
      BY <1>0, <2>4, <3>1 DEF Guards, TypeOK
    <3>3. gen[k] \in 1..MaxGen
      BY <1>0, <3>2, QueueTyped DEF TypeOK
    <3>4. queue \in Seq(Signals) /\ NoStop(queue)
      BY <1>0, <2>4, <3>2, <3>3, QueueTyped DEF GuardInv, QueueInv, StopsPlaced
    <3>5. Head(queue) = "Restart"
      BY <2>1, <3>4, TailStop
    <3> QED
      BY <2>3, <3>5
  <2> QED
    BY <2>1, <2>2, <2>3, <2>4, GuardMove
<1>8. CASE Packet(w)
  <2>1. /\ wpc[w] \in Loop /\ UNCHANGED <<wkey, wopt, wret, gen, down, runLock>>
        /\ MoveTo(w, "cast") /\ "cast" \in Loop \cup {"control", "unlock"}
    BY <1>8 DEF Packet, Loop
  <2> QED
    BY <1>r, <2>1, GuardMove
<1>9. CASE Cast(w)
  <2>1. /\ wpc[w] \in Loop /\ UNCHANGED <<wkey, wopt, wret, gen, down, runLock>>
        /\ MoveTo(w, "select") /\ "select" \in Loop \cup {"control", "unlock"}
    BY <1>9 DEF Cast, Loop
  <2> QED
    BY <1>r, <2>1, GuardMove
<1>10. CASE CloseSession(w)
  <2>1. UNCHANGED <<gen, down, runLock>> /\ wpc[w] \in Loop
    BY <1>10 DEF CloseSession, Loop
  <2>2. CASE wret[w] = 2
    <3>1. Exits(w)
      BY <1>10, <2>2 DEF CloseSession
    <3> QED
      BY <1>r, <2>1, <2>2, <3>1, GuardExit
  <2>3. CASE wret[w] # 2
    <3>1. /\ UNCHANGED <<wkey, wopt, wret>> /\ (MoveTo(w, "unlock") \/ MoveTo(w, "sleep"))
          /\ {"unlock", "sleep"} \subseteq Loop \cup {"control", "unlock"}
      BY <1>10, <2>3 DEF CloseSession, Loop
    <3> QED
      BY <1>r, <2>1, <3>1, GuardMove
  <2> QED
    BY <2>2, <2>3
<1>11. CASE Wake(w)
  <2>1. /\ wpc[w] \in Loop /\ UNCHANGED <<wkey, wopt, wret, gen, down, runLock>>
        /\ MoveTo(w, "control") /\ "control" \in Loop \cup {"control", "unlock"}
    BY <1>11 DEF Wake, Loop
  <2> QED
    BY <1>r, <2>1, GuardMove
<1>12. CASE StreamChannelUnlock(w)
  <2>1. Exits(w) /\ gen' = gen /\ down' = down /\ runLock' = runLock \ {wkey[w]}
    BY <1>12 DEF StreamChannelUnlock
  <2>2. \A k \in runLock' : ~Guards(w, k)
    BY <2>1 DEF Guards
  <2> QED
    BY <2>1, <2>2, GuardExit
<1>13. CASE OpenMuxer(w)
  <2>1. /\ wpc[w] \in Loop /\ UNCHANGED <<wkey, wopt, wret, gen, down, runLock>>
        /\ MoveTo(w, "select") /\ "select" \in Loop \cup {"control", "unlock"}
    BY <1>13 DEF OpenMuxer, Loop
  <2> QED
    BY <1>r, <2>1, GuardMove
<1> QED
  BY <1>1, <1>2, <1>3, <1>4, <1>5, <1>6, <1>7, <1>8, <1>9, <1>10, <1>11, <1>12, <1>13 DEF Worker

LEMMA GuardNext == GuardInv /\ [Next]_vars => GuardInv'
<1> SUFFICES ASSUME GuardInv, [Next]_vars PROVE GuardInv'
  OBVIOUS
<1>1. QueueInv'
  BY QueueNext DEF GuardInv
<1>2. CASE UNCHANGED vars
  BY <1>1, <1>2, GuardSame DEF vars, registry, history
<1>3. ASSUME NEW k \in Keys, AckExpires(k) PROVE GuardInv'
  BY <1>1, <1>3, GuardSame DEF AckExpires, registry, history
<1> QED
  BY <1>1, <1>2, <1>3, GuardApi, GuardViewer, GuardWorker DEF Next

\* No channel is locked out: until the shutdown, a set runLock has a live worker that is not
\* leaving on a Stop, so it is not left set with nobody to clear it.
THEOREM LockHasWorkerCorrect == Spec => []LockHasWorker
<1>1. Init => GuardInv
  BY GuardInit
<1>2. GuardInv /\ [Next]_vars => GuardInv'
  BY GuardNext
<1>3. GuardInv => LockHasWorker
  BY DEF GuardInv, LockGuarded, Guards, LockHasWorker, Alive
<1> QED
  BY <1>1, <1>2, <1>3, PTL DEF Spec
=============================================================================
