----------------------------- MODULE Recorder -----------------------------
(* Recordings: RecordingManager of recordManager.go and the HTTP calls     *)
(* Start and Stop of apiHTTPRecord.go.  Each recording is a goroutine      *)
(* `run' that opens a file, becomes a client of the channel, waits for the *)
(* codecs, writes packets, and leaves through deferred calls.  It is told  *)
(* to stop by closing its stopCh, and says that it is done by closing its  *)
(* doneCh.  Only the table of sessions is guarded by the mutex.            *)
(*                                                                         *)
(* Packets are not modelled: what matters is which recording a file        *)
(* belongs to.  A file name has the second of the start in it.             *)
EXTENDS Integers

CONSTANTS
  Keys,         \* channels, uuid:channel
  Recordings,   \* recording ids (random in the code, used once)
  Callers,      \* HTTP requests that call Stop
  StopTimeout,  \* 3 s: how long Stop waits for the recording
  MaxTime       \* bound: recordings start in the seconds before it

None == "none"

ASSUME RecorderAssumption ==
  /\ Keys # {} /\ None \notin Recordings
  /\ StopTimeout \in Nat /\ MaxTime \in Nat

VARIABLES
  now,        \* seconds
  sessions,   \* the sessions map
  key,        \* the channel of a recording
  started,    \* the second in its file name
  rpc,        \* where its goroutine is
  told,       \* recordings whose stopCh is closed
  finished,   \* history: the second in which it left the table, or -1
  owner,      \* who truncated a file last: a file is a channel and a second
  cpc,        \* where each Stop call is
  target,     \* the session it has looked up
  waited      \* for how long it has waited

recordings == <<sessions, key, started, rpc, finished, owner>>
calls == <<cpc, target, waited>>
vars == <<now, recordings, told, calls>>

Running == {"create", "client", "codecs", "loop"}
Leaving == {"close", "trailer"}

TypeOK ==
  /\ now \in 0..MaxTime
  /\ sessions \in [Keys -> Recordings \cup {None}]
  /\ key \in [Recordings -> Keys]
  /\ started \in [Recordings -> 0..MaxTime]
  /\ rpc \in [Recordings -> {"unborn", "done"} \cup Running \cup Leaving]
  /\ told \subseteq Recordings
  /\ finished \in [Recordings -> -1..MaxTime]
  /\ owner \in [Keys \X (0..MaxTime) -> Recordings \cup {None}]
  /\ cpc \in [Callers -> {"idle", "check", "close", "wait", "panic", "answered"}]
  /\ target \in [Callers -> Recordings \cup {None}]
  /\ \A c \in Callers : cpc[c] # "idle" => target[c] # None
  /\ waited \in [Callers -> 0..StopTimeout]
-----------------------------------------------------------------------------
\* buildRecordingFilePath: uuid, channel and the time in seconds
PathPerChannel(r) == <<key[r], 0>>  \* mutant: no time in the name
Path(r) == <<key[r], started[r]>>

EverBusy(k) == TRUE  \* mutant: ok is not looked at
Busy(k) == sessions[k] # None
NeverBusy(k) == FALSE  \* mutant: the table is not looked at
Occupied(k) == Busy(k)

Start(k, r) ==
  /\ rpc[r] = "unborn" /\ ~Occupied(k) /\ now < MaxTime
  /\ sessions' = [sessions EXCEPT ![k] = r]
  /\ key' = [key EXCEPT ![r] = k]
  /\ started' = [started EXCEPT ![r] = now]
  /\ rpc' = [rpc EXCEPT ![r] = "create"]
  /\ UNCHANGED <<now, told, finished, owner, calls>>

MoveTo(r, pc) == rpc' = [rpc EXCEPT ![r] = pc]

\* finish, after an error, too.  It deletes by the channel, whoever is there.
KeepAfterError(r, pc) ==  \* mutant: the error paths return without finish
  IF pc = "close" THEN sessions ELSE [sessions EXCEPT ![key[r]] = None]
Without(r, pc) == [sessions EXCEPT ![key[r]] = None]
Finish(r, pc) ==
  /\ MoveTo(r, pc)
  /\ sessions' = Without(r, pc)
  /\ finished' = [finished EXCEPT ![r] = now]

\* os.Create truncates the file when it is there.
Open(r) ==
  /\ rpc[r] = "create"
  /\ \/ /\ owner' = [owner EXCEPT ![Path(r)] = r]
        /\ MoveTo(r, "client")
        /\ UNCHANGED <<sessions, finished>>
     \/ Finish(r, "close") /\ UNCHANGED owner
  /\ UNCHANGED <<now, key, started, told, calls>>

\* StreamChannelRun and ClientAdd, then up to 5 s of StreamChannelCodecs, each of which may fail
Prepare(r) ==
  /\ rpc[r] \in {"client", "codecs"}
  /\ \/ MoveTo(r, IF rpc[r] = "client" THEN "codecs" ELSE "loop") /\ UNCHANGED <<sessions, finished>>
     \/ Finish(r, "close")
  /\ UNCHANGED <<now, key, started, told, owner, calls>>

\* The select loop ends: told to, no key frame for 20 s, a write error, or the time is over.
ToldTo(r) == rpc[r] = "loop" /\ r \in told
Leave(r) == Finish(r, "trailer") /\ UNCHANGED <<now, key, started, told, owner, calls>>
ObeyStop(r) == ToldTo(r) /\ Leave(r)
RunOut(r) == rpc[r] = "loop" /\ Leave(r)

\* The deferred WriteTrailer, ClientDelete and Close; then close(doneCh).
Defer(r) ==
  /\ rpc[r] \in Leaving
  /\ MoveTo(r, IF rpc[r] = "trailer" THEN "close" ELSE "done")
  /\ UNCHANGED <<now, sessions, key, started, told, finished, owner, calls>>
-----------------------------------------------------------------------------
Calls(c, pc) == cpc' = [cpc EXCEPT ![c] = pc]

\* Stop looks the session up under the mutex,
Stop(c, k) ==
  /\ cpc[c] = "idle" /\ Busy(k)
  /\ Calls(c, "check")
  /\ target' = [target EXCEPT ![c] = sessions[k]]
  /\ UNCHANGED <<now, recordings, told, waited>>

\* then looks at stopCh without the mutex,
Check(c) ==
  /\ cpc[c] = "check"
  /\ Calls(c, IF target[c] \in told THEN "wait" ELSE "close")
  /\ UNCHANGED <<now, recordings, told, target, waited>>

\* then closes it: a second close panics, and net/http drops the connection.
HeardInLoop(r) == {r} \cap {x \in Recordings : rpc[x] = "loop"}  \* mutant: a signal that is not kept
Heard(r) == {r}
Close(c) ==
  /\ cpc[c] = "close"
  /\ told' = told \cup Heard(target[c])
  /\ Calls(c, IF target[c] \in told THEN "panic" ELSE "wait")
  /\ UNCHANGED <<now, recordings, target, waited>>

\* It waits for doneCh, for 3 s at most, and answers OK in both cases.
PatientCall(c) == rpc[target[c]] = "done"  \* mutant: without time.After
WaitOver(c) == rpc[target[c]] = "done" \/ waited[c] = StopTimeout
Answer(c) ==
  /\ cpc[c] = "wait" /\ WaitOver(c)
  /\ Calls(c, "answered")
  /\ UNCHANGED <<now, recordings, told, target, waited>>

Hangup(c) ==
  /\ cpc[c] \in {"panic", "answered"}
  /\ Calls(c, "idle")
  /\ target' = [target EXCEPT ![c] = None]
  /\ waited' = [waited EXCEPT ![c] = 0]
  /\ UNCHANGED <<now, recordings, told>>

Tick ==
  /\ now' = IF now < MaxTime THEN now + 1 ELSE now
  /\ waited' = [c \in Callers |-> IF cpc[c] = "wait" /\ waited[c] < StopTimeout
                                   THEN waited[c] + 1 ELSE waited[c]]
  /\ UNCHANGED <<recordings, told, cpc, target>>
-----------------------------------------------------------------------------
Init ==
  /\ now = 0
  /\ sessions = [k \in Keys |-> None]
  /\ key = [r \in Recordings |-> CHOOSE k \in Keys : TRUE]
  /\ started = [r \in Recordings |-> 0]
  /\ rpc = [r \in Recordings |-> "unborn"]
  /\ told = {}
  /\ finished = [r \in Recordings |-> -1]
  /\ owner = [f \in Keys \X (0..MaxTime) |-> None]
  /\ cpc = [c \in Callers |-> "idle"]
  /\ target = [c \in Callers |-> None]
  /\ waited = [c \in Callers |-> 0]

Run(r) == Open(r) \/ Prepare(r) \/ ObeyStop(r) \/ RunOut(r) \/ Defer(r)
Call(c) == Check(c) \/ Close(c) \/ Answer(c) \/ Hangup(c)

Next ==
  \/ \E k \in Keys, r \in Recordings : Start(k, r)
  \/ \E r \in Recordings : Run(r)
  \/ \E c \in Callers : Call(c) \/ \E k \in Keys : Stop(c, k)
  \/ Tick

Spec == Init /\ [][Next]_vars

\* A call proceeds and time passes.  Nothing is assumed of the goroutine of a recording: it
\* may hang on the disk, or on the mutex of a registry that is frozen.
CallSpec ==
  Spec /\ WF_vars(Tick) /\ \A c \in Callers : WF_vars(Check(c) \/ Close(c) \/ Answer(c))

-----------------------------------------------------------------------------
\* The table says what is being recorded: an entry is there from Start until finish of the
\* very recording that Start put there.  Deleting by channel never hits a successor, and no
\* error leaves an entry behind, which would refuse every later Start.
TableIsLive ==
  \A k \in Keys, r \in Recordings : sessions[k] = r <=> key[r] = k /\ rpc[r] \in Running

\* Nobody truncates the file of a recording that is being written.
WritesOwnFile ==
  \A r \in Recordings : rpc[r] \in {"client", "codecs", "loop"} => owner[Path(r)] = r

\* The trailer is written after the entry is gone, so that it can end up in a successor's
\* file; but only when the recording ended within the second in which it began.
StrayTrailerIsShort ==
  \A r \in Recordings :
    rpc[r] = "trailer" /\ owner[Path(r)] # r => finished[r] = started[r]

\* Every call of Stop is answered, even when the recording hangs.
StopAnswered == \A c \in Callers : cpc[c] = "check" ~> cpc[c] \in {"answered", "panic"}

\* A goroutine that proceeds: the disk and the mutex of the registry answer, and Go's select,
\* which picks at random among the ready cases, takes the closed stopCh in the end, however
\* many packets come.
Proceeds(r) == WF_vars(Open(r) \/ Prepare(r) \/ Defer(r)) /\ WF_vars(ObeyStop(r))

\* A stop is not lost, whatever the recording was doing when it came: a recording that
\* proceeds ends once a call of Stop has closed its stopCh.
StopObeyed ==
  \A r \in Recordings :
    Proceeds(r) =>
      (\E c \in Callers : cpc[c] = "wait" /\ target[c] = r) ~> rpc[r] = "done"

\* The page says "Recording stopped" when Stop answers OK (web/static/js/i18n.js:293).  Stop
\* answers OK after 3 s whatever happened, and a recording waits up to 5 s for its codecs.
RecordingStopped ==
  \A c \in Callers : cpc[c] = "answered" => sessions[key[target[c]]] # target[c]
=============================================================================
