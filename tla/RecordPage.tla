---------------------------- MODULE RecordPage ----------------------------
(* The record button of the stream pages (initRecordControls of            *)
(* web/static/js/index.js) on top of the recordings of the server.         *)
(*                                                                         *)
(* A page keeps one flag, `recording', and no connection to the recording: *)
(* it asks for the status once, when it has loaded, and then sends start   *)
(* or stop by the flag.  Each request has a connection of its own, so that *)
(* requests may be served, and answers arrive, in any order, or be lost.   *)
EXTENDS Recorder, FiniteSets

CONSTANTS
  Pages,   \* browser tabs
  KeyOf    \* the channel each of them shows

ASSUME PageAssumption == Pages # {} /\ KeyOf \in [Pages -> Keys]

VARIABLES
  loaded,  \* pages that are open
  shown,   \* pages whose `recording' is true: the button says "stop"
  rat,     \* where a request is; those for stop are Callers of Recorder
  rpage,   \* the page that sent it
  rwhat,   \* what it asks for
  answer,  \* what it was answered
  upset    \* history: pages for which something happened that the code cannot tell them, and
           \* that have not been served since

page == <<loaded, shown, rat, rpage, rwhat, answer, upset>>
pageVars == <<vars, page>>

RequestsOf(p) == {c \in Callers : rat[c] \in {"sent", "served", "answered"} /\ rpage[c] = p}

PageTypeOK ==
  /\ TypeOK
  /\ loaded \subseteq Pages /\ shown \subseteq loaded /\ upset \subseteq Pages
  /\ rat \in [Callers -> {"free", "sent", "served", "answered", "elsewhere"}]
  /\ rpage \in [Callers -> Pages]
  /\ rwhat \in [Callers -> {"status", "start", "stop"}]
  /\ answer \in [Callers -> {"active", "inactive", "ok", "error"}]
-----------------------------------------------------------------------------
\* Requests are alike: any free one will do.
SomeFree == \E c \in Callers : rat[c] = "free"
Fresh == CHOOSE c \in Callers : rat[c] = "free"

\* Several requests of one page at once: nothing orders their answers.
Send(c, p, what) ==
  /\ SomeFree
  /\ rat' = [rat EXCEPT ![c] = "sent"]
  /\ rpage' = [rpage EXCEPT ![c] = p]
  /\ rwhat' = [rwhat EXCEPT ![c] = what]
  /\ upset' = IF RequestsOf(p) # {} THEN upset \cup {p} ELSE upset
  /\ UNCHANGED <<vars, answer>>

\* refreshStatus, at the end of initRecordControls and never again
Load(p) ==
  /\ p \notin loaded
  /\ loaded' = loaded \cup {p}
  /\ Send(Fresh, p, "status")
  /\ UNCHANGED shown

Action(p) == IF p \in shown THEN "stop" ELSE "start"
Click(p) ==
  /\ p \in loaded
  /\ Send(Fresh, p, Action(p))
  /\ UNCHANGED <<loaded, shown>>

Answers(c, text) ==
  /\ rat' = [rat EXCEPT ![c] = "answered"]
  /\ answer' = [answer EXCEPT ![c] = text]
  /\ UNCHANGED <<loaded, shown, rpage, rwhat>>

Sent(c, what) == rat[c] = "sent" /\ rwhat[c] = what

\* History: the answer to a page's only request sets its flag right, whatever happened before.
Settles(c) == IF RequestsOf(rpage[c]) = {c} THEN {rpage[c]} ELSE {}

ServeStatus(c) ==
  /\ Sent(c, "status")
  /\ Answers(c, IF Busy(KeyOf[rpage[c]]) THEN "active" ELSE "inactive")
  /\ upset' = upset \ Settles(c)
  /\ UNCHANGED vars

\* Recordings are alike, too.
Unborn(r) == rpc[r] = "unborn"
StartNext(k) ==
  (\E r \in Recordings : Unborn(r)) /\ Start(k, CHOOSE r \in Recordings : Unborn(r))

\* HTTPAPIRecordStart: 409 when the channel is being recorded; there may be no such channel,
\* or no directory, just as well
ServeStart(c) ==
  LET k == KeyOf[rpage[c]] IN
  /\ Sent(c, "start")
  /\ \/ /\ StartNext(k)
        /\ Answers(c, "ok")
        /\ upset' = (upset \cup {p \in loaded : KeyOf[p] = k /\ p # rpage[c]}) \ Settles(c)
     \/ /\ Answers(c, "error")
        /\ UNCHANGED <<vars, upset>>

\* HTTPAPIRecordStop: 404 when nothing is recorded, otherwise the call of Stop
ServeStop(c) ==
  LET k == KeyOf[rpage[c]] IN
  /\ Sent(c, "stop")
  /\ \/ /\ Stop(c, k)
        /\ rat' = [rat EXCEPT ![c] = "served"]
        /\ UNCHANGED <<loaded, shown, rpage, rwhat, answer, upset>>
     \/ /\ ~Busy(k)
        /\ Answers(c, "error")
        /\ UNCHANGED <<vars, upset>>

\* Stop comes back, or has panicked.  When it gave up waiting, the recording goes on.
StopReturns(c) ==
  /\ rat[c] = "served" /\ Hangup(c)
  /\ Answers(c, IF cpc[c] = "panic" THEN "error" ELSE "ok")
  /\ upset' = IF cpc[c] = "panic" \/ rpc[target[c]] \in Running THEN upset \cup {rpage[c]}
              ELSE IF Busy(KeyOf[rpage[c]]) THEN upset ELSE upset \ Settles(c)

\* The success handler; `error' leaves the flag alone, whatever the error was.
NewFlag(p, what, text) ==
  CASE text = "error"    -> shown
    [] text = "inactive" -> shown \ {p}
    [] text = "active"   -> shown \cup {p}
    [] text = "ok"       -> IF what = "start" THEN shown \cup {p} ELSE shown \ {p}
OnlyOk(p, what, text) ==  \* mutant: refreshStatus does not touch the flag
  CASE text \in {"error", "active", "inactive"} -> shown
    [] text = "ok" -> IF what = "start" THEN shown \cup {p} ELSE shown \ {p}
SetRecordState(p, what, text) == NewFlag(p, what, text)

Over(c) ==
  /\ rat' = [rat EXCEPT ![c] = "free"]
  /\ rwhat' = [rwhat EXCEPT ![c] = "status"]
  /\ answer' = [answer EXCEPT ![c] = "error"]
  /\ UNCHANGED <<vars, loaded, rpage>>

Receive(c) ==
  /\ rat[c] = "answered"
  /\ shown' = SetRecordState(rpage[c], rwhat[c], answer[c])
  /\ Over(c)
  /\ UNCHANGED upset

\* A request or an answer is lost, and ajax calls the error handler.
Lose(c) ==
  /\ rat[c] \in {"sent", "answered"}
  /\ Over(c)
  /\ upset' = upset \cup {rpage[c]}
  /\ UNCHANGED shown

\* A recording leaves the table: no page is told but those that asked for it.
Awaits(p, r) == \E c \in RequestsOf(p) : rat[c] = "served" /\ target[c] = r
RunAndTell(r) ==
  /\ Run(r)
  /\ upset' = IF sessions' = sessions THEN upset
              ELSE upset \cup {p \in loaded : KeyOf[p] = key[r] /\ ~Awaits(p, r)}
  /\ UNCHANGED <<loaded, shown, rat, rpage, rwhat, answer>>

\* Somebody calls the API without this page: another tab, or a program.
StartElsewhere(k) ==
  /\ StartNext(k)
  /\ upset' = upset \cup {p \in loaded : KeyOf[p] = k}
  /\ UNCHANGED <<loaded, shown, rat, rpage, rwhat, answer>>

StopElsewhere(k) ==  \* bound: one call at a time
  /\ SomeFree /\ ~\E c \in Callers : rat[c] = "elsewhere"
  /\ Stop(Fresh, k)
  /\ rat' = [rat EXCEPT ![Fresh] = "elsewhere"]
  /\ UNCHANGED <<loaded, shown, rpage, rwhat, answer, upset>>

ReturnsElsewhere(c) ==
  /\ rat[c] = "elsewhere" /\ Hangup(c)
  /\ rat' = [rat EXCEPT ![c] = "free"]
  /\ UNCHANGED <<loaded, shown, rpage, rwhat, answer, upset>>

InCall(c) == (Check(c) \/ Close(c) \/ Answer(c)) /\ UNCHANGED page

PageInit ==
  /\ Init
  /\ loaded = {} /\ shown = {} /\ upset = {}
  /\ rat = [c \in Callers |-> "free"]
  /\ rpage = [c \in Callers |-> CHOOSE p \in Pages : TRUE]
  /\ rwhat = [c \in Callers |-> "status"]
  /\ answer = [c \in Callers |-> "error"]

PageNext ==
  \/ \E p \in Pages : Load(p) \/ Click(p)
  \/ \E c \in Callers :
       \/ ServeStatus(c) \/ ServeStart(c) \/ ServeStop(c) \/ StopReturns(c)
       \/ Receive(c) \/ Lose(c) \/ InCall(c) \/ ReturnsElsewhere(c)
  \/ \E k \in Keys : StartElsewhere(k) \/ StopElsewhere(k)
  \/ \E r \in Recordings : RunAndTell(r)
  \/ Tick /\ UNCHANGED page

PageSpec == PageInit /\ [][PageNext]_pageVars

\* As in CallSpec: calls proceed and time passes, nothing is assumed of a recording.
PageCallSpec ==
  /\ PageSpec
  /\ WF_pageVars(Tick /\ UNCHANGED page)
  /\ \A c \in Callers : WF_pageVars(InCall(c))
-----------------------------------------------------------------------------
\* A page that waits for nothing shows whether its channel is recorded, unless something
\* happened that no answer tells it: requests of its own that overlapped, one that was lost,
\* another tab, a recording that ended by itself, a Stop that gave up waiting, or one that
\* panicked.  These six are all there is: neither a status nor a refusal, however late,
\* misleads a page.  And it is no longer misled once a request that it sent alone has been
\* served: a start or a stop that the server carried out, but not one that it refused.
RestingPageIsRight ==
  \A p \in loaded \ upset :
    RequestsOf(p) = {} => (p \in shown <=> Busy(KeyOf[p]))
=============================================================================
