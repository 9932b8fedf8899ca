------------------------- MODULE StreamLifecycle -------------------------
(***************************************************************************)
(* The stream registry of CamLink and the goroutines that pull cameras.    *)
(*                                                                         *)
(* StorageST (storageStruct.go) maps streams to channels behind one        *)
(* RWMutex.  Every channel that has to run is served by a goroutine        *)
(* StreamServerRunStreamDo (streamCore.go), started by the registry's      *)
(* operations and told to stop or to restart through the channel's         *)
(* buffered Go channel `signals'.  `runLock' is meant to keep that         *)
(* goroutine unique.                                                       *)
(*                                                                         *)
(* A critical section of the mutex is one action.  An operation that sends *)
(* to a full `signals' blocks while it HOLDS the mutex: `held' is then     *)
(* that operation, and nothing that needs the mutex can run.  A reader     *)
(* that blocks is treated like a writer, because Go's RWMutex queues every *)
(* new reader behind the first writer that waits, and each packet of each  *)
(* camera takes the write lock.                                            *)
(***************************************************************************)
EXTENDS Integers, Sequences, FiniteSets, Functions

CONSTANTS
  Streams,    \* stream UUIDs
  Channels,   \* channel ids
  Workers,    \* goroutine slots (bounds how many workers live at once)
  Viewers,    \* HTTP and RTSP handlers that watch a channel
  SignalCap,  \* capacity of ChannelST.signals (100 in the code)
  MaxGen,     \* bound: how often one channel id is configured
  MaxReloads, \* bound: reload calls
  ApiCalls    \* the configuration calls the administrator makes

ASSUME LifecycleAssumption ==
  /\ Streams # {} /\ Channels # {}
  /\ SignalCap \in Nat \ {0}
  /\ MaxGen \in Nat \ {0}
  /\ MaxReloads \in Nat
  /\ ApiCalls \subseteq {"StreamAdd", "StreamEdit", "StreamDelete", "StreamReload",
                         "ChannelAdd", "ChannelEdit", "ChannelDelete", "ChannelReload",
                         "StopAll"}

Keys == Streams \X Channels
AnyKey == CHOOSE k \in Keys : TRUE
Signals == {"Stop", "Restart"}   \* SignalStreamClient is never sent

VARIABLES
  streams,    \* stream ids in the registry
  conf,       \* channels in the registry
  gen,        \* how often StreamChannelMake built the channel: its incarnation
  onDemand,   \* channels configured on demand
  runLock,    \* channels whose stored runLock is true
  online,     \* channels whose stored Status is ONLINE
  fresh,      \* channels whose ack is at most 30 s old
  clients,    \* the channel's clients map
  sig,        \* sig[k][g]: content of `signals' of incarnation g of channel k
  wpc,        \* where each worker is
  wkey,       \* the channel it serves
  wopt,       \* the incarnation its copy `opt' was taken from
  wod,        \* opt.OnDemand of that copy
  wret,       \* the status StreamServerRunStream is returning
  vpc, vkey,  \* where each viewer is, and the channel it asked for
  held,       \* the call that is blocked on a full `signals' with the mutex held
  booted,     \* StreamChannelRunAll has run
  down,       \* StopAll has run
  reloads,    \* history: reload calls made
  unguarded   \* history: workers started without taking a free runLock

registry == <<streams, conf, gen, onDemand, runLock, clients>>
workers  == <<wpc, wkey, wopt, wod, wret>>
viewers  == <<vpc, vkey>>
history  == <<booted, down, reloads, unguarded>>
vars == <<registry, online, fresh, sig, workers, viewers, held, history>>

WorkerPC == {"free", "control", "check", "dial", "open", "select", "cast", "closing", "sleep", "unlock"}
NoCall == [op |-> "none", at |-> {}, new |-> {}, od |-> {}]

TypeOK ==
  /\ streams \subseteq Streams
  /\ conf \subseteq {k \in Keys : k[1] \in streams}
  /\ gen \in [Keys -> Nat]
  /\ onDemand \subseteq conf
  /\ runLock \subseteq conf
  /\ online \subseteq conf
  /\ fresh \subseteq conf
  /\ clients \in [Keys -> SUBSET Viewers]
  /\ sig \in [Keys -> [1..MaxGen -> Seq(Signals)]]
  /\ \A k \in Keys : gen[k] <= MaxGen /\ (k \in conf => gen[k] > 0)
  /\ wpc \in [Workers -> WorkerPC]
  /\ wkey \in [Workers -> Keys]
  /\ wopt \in [Workers -> 0..MaxGen]
  /\ wod \in [Workers -> BOOLEAN]
  /\ wret \in [Workers -> 0..2]
  /\ vpc \in [Viewers -> {"idle", "run", "add", "watch"}]
  /\ vkey \in [Viewers -> Keys]
  /\ held \in [op : {"none"} \cup ApiCalls, at : SUBSET Keys, new : SUBSET Keys, od : SUBSET Keys]
  /\ booted \in BOOLEAN
  /\ down \in BOOLEAN
  /\ reloads \in Nat
  /\ unguarded \in [Keys -> Nat]
-----------------------------------------------------------------------------
(* The parts the operations are made of.                                   *)

Alive(k) == {w \in Workers : wpc[w] # "free" /\ wkey[w] = k}
InSession(w) == wpc[w] \in {"open", "select", "cast", "closing"}
MutexFree == held = NoCall
ChannelsOf(s) == {k \in conf : k[1] = s}

\* go StreamServerRunStreamDo for every channel of S; those of U did not take a free runLock
Spawn(S, U) ==
  /\ \E hire \in Injection(S, {w \in Workers : wpc[w] = "free"}) :
       /\ wpc'  = [w \in Workers |-> IF w \in Range(hire) THEN "control" ELSE wpc[w]]
       /\ wkey' = [w \in Workers |-> IF w \in Range(hire)
                                     THEN CHOOSE k \in S : hire[k] = w ELSE wkey[w]]
  /\ unguarded' = [k \in Keys |-> IF k \in U THEN unguarded[k] + 1 ELSE unguarded[k]]
  /\ UNCHANGED <<wopt, wod, wret>>

\* Channels R leave the registry and K enter it through StreamChannelMake:
\* no clients, an old ack, an empty `signals'; L is stored with runLock set.
Install(R, K, od, L) ==
  /\ \A k \in K : gen[k] < MaxGen
  /\ conf'     = (conf \ R) \cup K
  /\ gen'      = [k \in Keys |-> IF k \in K THEN gen[k] + 1 ELSE gen[k]]
  /\ onDemand' = (onDemand \ R) \cup od
  /\ runLock'  = (runLock \ R) \cup L
  /\ online'   = online \ (R \cup K)
  /\ fresh'    = fresh \ (R \cup K)
  /\ clients'  = [k \in Keys |-> IF k \in R \cup K THEN {} ELSE clients[k]]

\* StreamAdd and StreamEdit store the channels that start at once with runLock set
LocksNone(K, od) == {}  \* mutant: as StreamChannelAdd does
LocksAll(K, od) == K    \* mutant: on-demand channels, too
LocksOf(K, od) == K \ od

\* Stop is sent where the stored runLock says that a worker runs
NoStopTargets(K) == {}  \* mutant: no Stop
StopTargets(K) == K \cap runLock

\* signals <- s for every channel of T; the caller blocks when one of them is full
FullTooEarly(T) == \E k \in T : Len(sig[k][gen[k]]) + 1 >= SignalCap  \* mutant: off by one
Full(T) == \E k \in T : Len(sig[k][gen[k]]) >= SignalCap
SendLate(T, s) ==  \* mutant: to the successor of the channel
  sig' = [k \in Keys |-> IF k \in T THEN [sig[k] EXCEPT ![gen[k] + 1] = Append(@, s)] ELSE sig[k]]
Send(T, s) ==
  sig' = [k \in Keys |-> IF k \in T THEN [sig[k] EXCEPT ![gen[k]] = Append(@, s)] ELSE sig[k]]

Blocks(call, T) ==
  /\ MutexFree /\ Full(T)
  /\ held' = call
  /\ UNCHANGED <<registry, online, fresh, sig, workers, viewers, history>>

Proceeds(call, T) ==
  /\ held \in {NoCall, call} /\ ~Full(T)
  /\ held' = NoCall
  /\ UNCHANGED viewers

\* ClientHas: the channel exists and was asked for in the last 30 s
ClientHas(k) == k \in conf /\ k \in fresh
NeverNoClients(w) == FALSE  \* mutant: the timer is not read
NoClients(w) == wod[w] /\ ~ClientHas(wkey[w])
-----------------------------------------------------------------------------
(* Configuration calls.                                                    *)

StreamAdd(s, K, od) ==
  /\ "StreamAdd" \in ApiCalls /\ MutexFree /\ s \notin streams
  /\ streams' = streams \cup {s}
  /\ Install({}, K, od, LocksOf(K, od))
  /\ Spawn(K \ od, {})
  /\ UNCHANGED <<sig, viewers, held, booted, down, reloads>>

StreamEdit(s, K, od) ==
  LET call == [op |-> "StreamEdit", at |-> ChannelsOf(s), new |-> K, od |-> od]
      T == StopTargets(ChannelsOf(s))
  IN /\ "StreamEdit" \in ApiCalls /\ s \in streams
     /\ \/ Blocks(call, T)
        \/ /\ Proceeds(call, T)
           /\ Send(T, "Stop")
           /\ Install(ChannelsOf(s), K, od, LocksOf(K, od))
           /\ Spawn(K \ od, {})
           /\ UNCHANGED <<streams, booted, down, reloads>>

StreamDelete(s) ==
  LET call == [op |-> "StreamDelete", at |-> ChannelsOf(s), new |-> {}, od |-> {}]
      T == StopTargets(ChannelsOf(s))
  IN /\ "StreamDelete" \in ApiCalls /\ s \in streams
     /\ \/ Blocks(call, T)
        \/ /\ Proceeds(call, T)
           /\ Send(T, "Stop")
           /\ Install(ChannelsOf(s), {}, {}, {})
           /\ streams' = streams \ {s}
           /\ UNCHANGED <<workers, history>>

StreamReload(s) ==
  LET call == [op |-> "StreamReload", at |-> ChannelsOf(s), new |-> {}, od |-> {}]
      T == ChannelsOf(s) \cap runLock
  IN /\ "StreamReload" \in ApiCalls /\ s \in streams /\ reloads < MaxReloads
     /\ \/ Blocks(call, T)
        \/ /\ Proceeds(call, T)
           /\ Send(T, "Restart")
           /\ reloads' = reloads + 1
           /\ UNCHANGED <<registry, online, fresh, workers, booted, down, unguarded>>

\* StreamChannelAdd stores the channel before it sets runLock on its own copy:
\* the registry keeps runLock = false while the worker runs.
ChannelAdd(k, od) ==
  /\ "ChannelAdd" \in ApiCalls /\ MutexFree /\ k[1] \in streams /\ k \notin conf
  /\ Install({}, {k}, od, {})
  /\ Spawn({k} \ od, {k} \ od)
  /\ UNCHANGED <<streams, sig, viewers, held, booted, down, reloads>>

ChannelEdit(k, od) ==
  LET call == [op |-> "ChannelEdit", at |-> {k}, new |-> {k}, od |-> od]
      T == StopTargets({k})
  IN /\ "ChannelEdit" \in ApiCalls /\ k \in conf
     /\ \/ Blocks(call, T)
        \/ /\ Proceeds(call, T)
           /\ Send(T, "Stop")
           /\ Install({k}, {k}, od, {})
           /\ Spawn({k} \ od, {k} \ od)
           /\ UNCHANGED <<streams, booted, down, reloads>>

ChannelDelete(k) ==
  LET call == [op |-> "ChannelDelete", at |-> {k}, new |-> {}, od |-> {}]
      T == StopTargets({k})
  IN /\ "ChannelDelete" \in ApiCalls /\ k \in conf
     /\ \/ Blocks(call, T)
        \/ /\ Proceeds(call, T)
           /\ Send(T, "Stop")
           /\ Install({k}, {}, {}, {})
           /\ UNCHANGED <<streams, workers, history>>

\* StreamChannelReload does not look at runLock: nobody may be there to read the signal
ChannelReload(k) ==
  LET call == [op |-> "ChannelReload", at |-> {k}, new |-> {}, od |-> {}]
  IN /\ "ChannelReload" \in ApiCalls /\ k \in conf /\ reloads < MaxReloads
     /\ \/ Blocks(call, {k})
        \/ /\ Proceeds(call, {k})
           /\ Send({k}, "Restart")
           /\ reloads' = reloads + 1
           /\ UNCHANGED <<registry, online, fresh, workers, booted, down, unguarded>>

\* main, on SIGINT or SIGTERM
StopAll ==
  LET call == [op |-> "StopAll", at |-> conf, new |-> {}, od |-> {}]
  IN /\ "StopAll" \in ApiCalls /\ ~down
     /\ \/ Blocks(call, runLock)
        \/ /\ Proceeds(call, runLock)
           /\ Send(runLock, "Stop")
           /\ down' = TRUE
           /\ UNCHANGED <<registry, online, fresh, workers, booted, reloads, unguarded>>

\* main starts the HTTP and RTSP servers first; runLock is set without a look at it
StreamChannelRunAll ==
  LET S == conf \ onDemand
  IN /\ ~booted /\ MutexFree
     /\ booted' = TRUE
     /\ runLock' = runLock \cup S
     /\ Spawn(S, S \cap runLock)
     /\ UNCHANGED <<streams, conf, gen, onDemand, clients, online, fresh, sig, viewers,
                    held, down, reloads>>
-----------------------------------------------------------------------------
(* Viewers: StreamChannelExist, StreamChannelRun, ClientAdd, ClientDelete, *)
(* in the order of the HTTP and RTSP handlers.  An HLS viewer leaves       *)
(* without a ClientAdd.                                                    *)

StreamChannelExist(v, k) ==
  /\ MutexFree /\ vpc[v] = "idle" /\ k \in conf
  /\ fresh' = fresh \cup {k}
  /\ vpc' = [vpc EXCEPT ![v] = "run"]
  /\ vkey' = [vkey EXCEPT ![v] = k]
  /\ UNCHANGED <<registry, online, sig, workers, held, history>>

CanAlwaysRun(k) == k \in conf  \* mutant: runLock is not looked at
CanRun(k) == k \in conf /\ k \notin runLock
StreamChannelRun(v) ==
  /\ MutexFree /\ vpc[v] = "run"
  /\ vpc' = [vpc EXCEPT ![v] = "add"]
  /\ IF CanRun(vkey[v])
     THEN /\ runLock' = runLock \cup {vkey[v]}
          /\ Spawn({vkey[v]}, {})
     ELSE UNCHANGED <<runLock, workers, unguarded>>
  /\ UNCHANGED <<streams, conf, gen, onDemand, clients, online, fresh, sig, vkey, held,
                 booted, down, reloads>>

ClientAdd(v) ==
  /\ MutexFree /\ vpc[v] = "add" /\ vkey[v] \in conf
  /\ clients' = [clients EXCEPT ![vkey[v]] = @ \cup {v}]
  /\ fresh' = fresh \cup {vkey[v]}
  /\ vpc' = [vpc EXCEPT ![v] = "watch"]
  /\ UNCHANGED <<streams, conf, gen, onDemand, runLock, online, sig, workers, vkey, held, history>>

\* ClientDelete, or a handler that returns before ClientAdd
Leave(v) ==
  /\ MutexFree /\ vpc[v] \in {"add", "watch"}
  /\ clients' = [clients EXCEPT ![vkey[v]] = @ \ {v}]
  /\ vpc' = [vpc EXCEPT ![v] = "idle"]
  /\ vkey' = [vkey EXCEPT ![v] = AnyKey]
  /\ UNCHANGED <<streams, conf, gen, onDemand, runLock, online, fresh, sig, workers, held, history>>

\* 30 s without Exist, ClientAdd or a packet cast to a client
AckExpires(k) ==
  /\ k \in fresh
  /\ clients[k] = {} \/ \A w \in Alive(k) : wpc[w] \notin {"select", "cast"}
  /\ fresh' = fresh \ {k}
  /\ UNCHANGED <<registry, online, sig, workers, viewers, held, history>>
-----------------------------------------------------------------------------
(* The worker goroutine.                                                   *)

MoveTo(w, pc) == wpc' = [wpc EXCEPT ![w] = pc]
Exits(w) ==
  /\ MoveTo(w, "free")
  /\ wkey' = [wkey EXCEPT ![w] = AnyKey]
  /\ wopt' = [wopt EXCEPT ![w] = 0]
  /\ wod'  = [wod EXCEPT ![w] = FALSE]
  /\ wret' = [wret EXCEPT ![w] = 0]

\* opt := a copy of the channel as it is now; its `signals' is that incarnation's
Control(w) ==
  /\ MutexFree /\ wpc[w] = "control"
  /\ IF wkey[w] \in conf
     THEN /\ wopt' = [wopt EXCEPT ![w] = gen[wkey[w]]]
          /\ wod'  = [wod EXCEPT ![w] = wkey[w] \in onDemand]
          /\ MoveTo(w, "check")
     ELSE /\ MoveTo(w, "unlock")
          /\ UNCHANGED <<wopt, wod>>
  /\ UNCHANGED <<registry, online, fresh, sig, wkey, wret, viewers, held, history>>

CheckClients(w) ==
  /\ wpc[w] = "check" /\ (wod[w] => MutexFree)
  /\ MoveTo(w, IF NoClients(w) THEN "unlock" ELSE "dial")
  /\ UNCHANGED <<registry, online, fresh, sig, wkey, wopt, wod, wret, viewers, held, history>>

DialFails(w) ==
  /\ wpc[w] = "dial"
  /\ MoveTo(w, "sleep")
  /\ UNCHANGED <<registry, online, fresh, sig, wkey, wopt, wod, wret, viewers, held, history>>

StatusOnline(w) == online' = online \cup ({wkey[w]} \cap conf)
StatusKept(w) == online' = online  \* mutant: no Status(OFFLINE)
StatusOffline(w) == online' = online \ {wkey[w]}

\* Dial succeeds and StreamChannelStatus stores ONLINE
DialSucceeds(w) ==
  /\ MutexFree /\ wpc[w] = "dial"
  /\ MoveTo(w, "open")
  /\ StatusOnline(w)
  /\ UNCHANGED <<registry, fresh, sig, wkey, wopt, wod, wret, viewers, held, history>>

\* StreamChannelCodecsUpdate and NewHLSMuxer need the mutex before the loop begins
OpenMuxer(w) ==
  /\ MutexFree /\ wpc[w] = "open"
  /\ MoveTo(w, "select")
  /\ UNCHANGED <<registry, online, fresh, sig, wkey, wopt, wod, wret, viewers, held, history>>

Returns(w, status) ==
  /\ MoveTo(w, "closing")
  /\ wret' = [wret EXCEPT ![w] = status]

\* case <-checkClients.C
ClientsTimer(w) ==
  /\ MutexFree /\ wpc[w] = "select" /\ NoClients(w)
  /\ Returns(w, 1)
  /\ UNCHANGED <<registry, online, fresh, sig, wkey, wopt, wod, viewers, held, history>>

\* case <-keyTest.C, and SignalStreamRTPStop
SourceLost(w) ==
  /\ wpc[w] = "select"
  /\ Returns(w, 0)
  /\ UNCHANGED <<registry, online, fresh, sig, wkey, wopt, wod, viewers, held, history>>

ObeysStopOnly(w, signal) ==  \* mutant: a Restart is dropped
  IF signal = "Stop" THEN Returns(w, 2) ELSE UNCHANGED <<wpc, wret>>
Obeys(w, signal) == Returns(w, IF signal = "Stop" THEN 2 ELSE 0)

\* case signals := <-opt.signals
TakeSignal(w) ==
  LET k == wkey[w]
      queue == sig[k][wopt[w]]
  IN /\ wpc[w] = "select" /\ queue # <<>>
     /\ Obeys(w, Head(queue))
     /\ sig' = [sig EXCEPT ![k][wopt[w]] = Tail(queue)]
     /\ UNCHANGED <<registry, online, fresh, wkey, wopt, wod, viewers, held, history>>

\* case packet := <-queue: the worker now needs the mutex
Packet(w) ==
  /\ wpc[w] = "select"
  /\ MoveTo(w, "cast")
  /\ UNCHANGED <<registry, online, fresh, sig, wkey, wopt, wod, wret, viewers, held, history>>

Cast(w) ==
  /\ MutexFree /\ wpc[w] = "cast"
  /\ MoveTo(w, "select")
  /\ fresh' = fresh \cup {k \in {wkey[w]} \cap conf : clients[k] # {}}
  /\ UNCHANGED <<registry, online, sig, wkey, wopt, wod, wret, viewers, held, history>>

\* the deferred Status(OFFLINE); status 2 returns without StreamChannelUnlock
CloseSession(w) ==
  /\ MutexFree /\ wpc[w] = "closing"
  /\ StatusOffline(w)
  /\ IF wret[w] = 2
     THEN Exits(w)
     ELSE /\ MoveTo(w, IF wret[w] = 1 THEN "unlock" ELSE "sleep")
          /\ UNCHANGED <<wkey, wopt, wod, wret>>
  /\ UNCHANGED <<registry, fresh, sig, viewers, held, history>>

Wake(w) ==
  /\ wpc[w] = "sleep"
  /\ MoveTo(w, "control")
  /\ UNCHANGED <<registry, online, fresh, sig, wkey, wopt, wod, wret, viewers, held, history>>

StreamChannelUnlock(w) ==
  /\ MutexFree /\ wpc[w] = "unlock"
  /\ runLock' = runLock \ {wkey[w]}
  /\ Exits(w)
  /\ UNCHANGED <<streams, conf, gen, onDemand, clients, online, fresh, sig, viewers, held, history>>
-----------------------------------------------------------------------------
\* NewStreamCore has read the configuration file; no worker runs yet
Init ==
  /\ streams \in SUBSET Streams
  /\ conf \in SUBSET {k \in Keys : k[1] \in streams}
  /\ gen = [k \in Keys |-> IF k \in conf THEN 1 ELSE 0]
  /\ onDemand \in SUBSET conf
  /\ runLock = {} /\ online = {} /\ fresh = {}
  /\ clients = [k \in Keys |-> {}]
  /\ sig = [k \in Keys |-> [g \in 1..MaxGen |-> <<>>]]
  /\ wpc = [w \in Workers |-> "free"]
  /\ wkey = [w \in Workers |-> AnyKey]
  /\ wopt = [w \in Workers |-> 0]
  /\ wod = [w \in Workers |-> FALSE]
  /\ wret = [w \in Workers |-> 0]
  /\ vpc = [v \in Viewers |-> "idle"]
  /\ vkey = [v \in Viewers |-> AnyKey]
  /\ held = NoCall
  /\ booted = FALSE /\ down = FALSE
  /\ reloads = 0
  /\ unguarded = [k \in Keys |-> 0]

Api ==
  \/ \E s \in Streams :
       \/ StreamDelete(s)
       \/ StreamReload(s)
       \/ \E K \in SUBSET ({s} \X Channels) : \E od \in SUBSET K :
            StreamAdd(s, K, od) \/ StreamEdit(s, K, od)
  \/ \E k \in Keys :
       \/ ChannelDelete(k)
       \/ ChannelReload(k)
       \/ \E od \in SUBSET {k} : ChannelAdd(k, od) \/ ChannelEdit(k, od)
  \/ StopAll
  \/ StreamChannelRunAll

Viewer(v) ==
  \/ \E k \in Keys : StreamChannelExist(v, k)
  \/ StreamChannelRun(v)
  \/ ClientAdd(v)
  \/ Leave(v)

Worker(w) ==
  \/ Control(w) \/ CheckClients(w)
  \/ DialFails(w) \/ DialSucceeds(w) \/ OpenMuxer(w)
  \/ ClientsTimer(w) \/ SourceLost(w) \/ TakeSignal(w)
  \/ Packet(w) \/ Cast(w)
  \/ CloseSession(w) \/ Wake(w) \/ StreamChannelUnlock(w)

Next ==
  \/ Api
  \/ \E v \in Viewers : Viewer(v)
  \/ \E k \in Keys : AckExpires(k)
  \/ \E w \in Workers : Worker(w)

Spec == Init /\ [][Next]_vars
-----------------------------------------------------------------------------
(* Safety.                                                                 *)

\* runLock works as a lock wherever nothing goes around it: a channel configured
\* once, whose workers all took the free lock, has one worker at most, and a
\* worker that lives implies that the channel, while configured, is locked.
SingleWorker ==
  \A k \in Keys : gen[k] = 1 /\ unguarded[k] = 0 =>
    /\ \A w1, w2 \in Alive(k) : w1 = w2
    /\ Alive(k) # {} /\ k \in conf => k \in runLock

\* The exact price of going around it: each configuration of a channel and each
\* unguarded start adds one worker at most.  A free lock counts as the worker
\* that StreamChannelRun may start at any moment.
WorkerBudget ==
  \A k \in Keys :
    Cardinality(Alive(k)) + (IF k \in conf \ runLock THEN 1 ELSE 0) <= gen[k] + unguarded[k]

\* No channel is locked out: while runLock is set, and the program is not shutting
\* down, some worker of that channel lives that leaves through StreamChannelUnlock.
LockHasWorker ==
  ~down => \A k \in runLock : \E w \in Alive(k) : wret[w] # 2

\* A channel shown ONLINE has a worker that is connected to its source.  And one that was
\* configured once, and whose workers all took the free lock, is shown ONLINE while its worker is
\* connected: no OFFLINE comes from elsewhere.  (After a replacement it may.)
OnlineMeansSession ==
  /\ \A k \in online : \E w \in Alive(k) : InSession(w)
  /\ \A k \in conf : gen[k] = 1 /\ unguarded[k] = 0 =>
       \A w \in Alive(k) : InSession(w) => k \in online

\* Before shutdown a Stop only ever waits in the queue of an incarnation that has
\* left the registry, and at most one: StreamEdit, StreamDelete and their channel
\* forms address the worker they replace, never its successor.
StopsOnlyForReplaced ==
  ~down => \A k \in Keys : \A g \in 1..MaxGen :
    /\ \A i, j \in DOMAIN sig[k][g] : sig[k][g][i] = "Stop" /\ sig[k][g][j] = "Stop" => i = j
    /\ k \in conf /\ g = gen[k] => \A i \in DOMAIN sig[k][g] : sig[k][g][i] # "Stop"

\* The registry freezes (a call keeps the mutex, waiting for room in `signals')
\* only after as many reloads as a queue holds; StopAll counts as one of them.
FreezeNeedsReloads ==
  ~MutexFree => SignalCap <= reloads + (IF down THEN 1 ELSE 0)

\* What the comment on StreamChannelRun promises ("one stream and lock",
\* storageStreamChannel.go:55).  The code breaks it: see StreamChannelAdd.
OneStreamAndLock ==
  \A k \in Keys : Cardinality(Alive(k)) <= 1
-----------------------------------------------------------------------------
(* Liveness.  A goroutine that can run does run; timers fire.  Go's select *)
(* picks at random among the ready cases, so a case that is ready again    *)
(* and again (a signal in the queue, the client timer) is taken in the     *)
(* end: strong fairness.  Whether a source answers, and whether it lasts,  *)
(* is up to the source: no fairness.                                       *)

Fairness ==
  /\ \A w \in Workers :
       /\ WF_vars(Control(w) \/ CheckClients(w) \/ OpenMuxer(w) \/ Cast(w) \/ CloseSession(w)
                   \/ Wake(w) \/ StreamChannelUnlock(w))
       /\ WF_vars(DialFails(w) \/ DialSucceeds(w))
       /\ SF_vars(TakeSignal(w))
       /\ SF_vars(ClientsTimer(w))
  /\ \A v \in Viewers : WF_vars(StreamChannelRun(v) \/ ClientAdd(v) \/ Leave(v))
  /\ \A k \in Keys : WF_vars(AckExpires(k))

FairSpec == Spec /\ Fairness

\* Deleting a channel ends its worker, wherever the worker was when the Stop was
\* sent (asleep, dialing, casting), for a channel configured once and guarded.
DeletedStops ==
  \A k \in Keys :
    (k \notin conf /\ gen[k] = 1 /\ unguarded[k] = 0)
      ~> (Alive(k) = {} \/ gen[k] > 1)

\* A source nobody asks for is let go: an on-demand channel that no viewer asks
\* for any more loses its worker, and its lock, in the end.
OnDemandReleased ==
  \A k \in Keys :
    [](k \in conf => k \in onDemand) /\ <>[](\A v \in Viewers : vpc[v] = "idle" \/ vkey[v] # k)
      => <>[](k \notin runLock /\ Alive(k) = {})

\* A reload is not lost: a connected worker with a signal in its queue ends that session,
\* or another worker that shares the queue ends its own, whatever the scheduler prefers,
\* unless the registry freezes.
ReloadReconnects ==
  \A k \in Keys : \A w \in Workers :
    (w \in Alive(k) /\ wpc[w] = "select" /\ sig[k][wopt[w]] # <<>>)
      ~> \/ ~InSession(w) \/ ~MutexFree
         \/ \E u \in Alive(k) \ {w} : wopt[u] = wopt[w] /\ wpc[u] = "closing"
=============================================================================
