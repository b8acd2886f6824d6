------------------------------ MODULE Clients -------------------------------
(***************************************************************************)
(* The tray and the dashboard beside the daemon.  Both show the published  *)
(* profile and let the user choose another one; a choice is shown at once, *)
(* before the daemon has published it (local_override_mode_).              *)
(*                                                                         *)
(* A choice is a datagram to the daemon's abstract socket, answered to an  *)
(* address of its own: it may meet no daemon, be refused, be answered      *)
(* after the client gave up waiting, or be overtaken by the other client,  *)
(* by a battery rule or by a restart.  What the daemon does with a profile *)
(* is in ProfileAuthority; here it publishes one.                          *)
(***************************************************************************)
EXTENDS Integers, Sequences, SequencesExt

CONSTANTS
  Offered,     \* the profiles the user chooses from
  Backlog,     \* bound on datagrams that wait in the socket
  MaxActs      \* bound on what users, the battery and the service manager do

ASSUME ClientAssumption ==
  /\ Offered \subseteq 0..3 /\ {1, 3} \subseteq Offered
  /\ {Backlog, MaxActs} \subseteq Nat

VARIABLES
  serving,    \* a daemon holds the lock "wattcurb.lock" and reads its socket
  published,  \* power_profile_mode in /dev/shm, which outlives the daemon
  charge,     \* the published battery: "low" is 6 to 20 percent, "critical" below
  inbox,      \* datagrams that wait
  answer,     \* the datagram at the dashboard's client socket
  tray,       \* TrayClient::local_override_mode_
  dash,       \* DashboardBackend: see Dash
  unseen,     \* seq_version has moved on from prev_seq_version_
  acts        \* events of MaxActs so far

clientVars == <<serving, published, charge, inbox, answer, tray, dash, unseen, acts>>

NoMode == -1
NoAnswer == [says |-> "nothing", mode |-> NoMode]

(* pc: idle, waiting for the answer to PROFILE, or to FULL_TELEMETRY.        *)
Dash == [pc: {"idle", "setting", "asking"}, override: Offered \cup {NoMode},
         prev: Offered, latest: Offered, asked: Offered \cup {NoMode}]
Requests == [from: {"tray", "dash", "gone"}, verb: {"PROFILE", "RESCAN", "FULL_TELEMETRY"},
             mode: Offered \cup {NoMode}]

ClientsTypeOK ==
  /\ serving \in BOOLEAN /\ unseen \in BOOLEAN
  /\ published \in Offered
  /\ charge \in {"ample", "low", "critical"}
  /\ inbox \in BoundedSeq(Requests, Backlog)
  /\ answer.says \in {"nothing", "OK", "ERROR", "JSON"}
  /\ tray \in Offered \cup {NoMode}
  /\ dash \in Dash
  /\ acts \in 0..MaxActs

Act == acts < MaxActs /\ acts' = acts + 1

-----------------------------------------------------------------------------
(* SingletonLock::query_daemon.  Without a daemon nothing is sent.           *)

Post(from, verb, mode) ==
  IF serving THEN Append(inbox, [from |-> from, verb |-> verb, mode |-> mode]) ELSE inbox
HasRoom == Len(inbox) < Backlog

(* A client that stops waiting closes its socket.                            *)
Leave(box) == [i \in DOMAIN box |-> [box[i] EXCEPT !.from = IF @ = "dash" THEN "gone" ELSE @]]

-----------------------------------------------------------------------------
(* The daemon: handle_ipc_datagram, observation cycles, start and stop.      *)

(* resolve_profile, as far as a client can tell.                             *)
Demoted(mode, now) ==
  CASE now = "critical" -> {3}
    [] now = "low" -> {m \in Offered : m >= mode}
    [] now = "ample" -> {mode}

(* Below 6 percent only UltraEndurance is accepted.                          *)
Refused(request, authorized) == ~authorized \/ (charge = "critical" /\ request.mode # 3)

Tell(request, says, mode) ==
  answer' = IF request.from = "dash" THEN [says |-> says, mode |-> mode] ELSE answer

Publish(mode) == published' = mode /\ unseen' = TRUE

(* peer_is_authorized_client looks at the sender's executable at that moment,*)
(* which an update of the package replaces.                                  *)
HandleProfile(request) ==
  \E authorized \in BOOLEAN :
    IF Refused(request, authorized)
    THEN Tell(request, "ERROR", NoMode) /\ UNCHANGED <<published, unseen>>
    ELSE Tell(request, "OK", NoMode) /\ Publish(request.mode)

HandleRescan(request) ==
  /\ \E mode \in Demoted(published, charge) : Publish(mode)
  /\ Tell(request, "OK", NoMode)

HandleTelemetry(request) ==
  Tell(request, "JSON", published) /\ UNCHANGED <<published, unseen>>

Handle ==
  /\ serving /\ inbox # <<>>
  /\ LET request == Head(inbox) IN
       \/ request.verb = "PROFILE" /\ HandleProfile(request)
       \/ request.verb = "RESCAN" /\ HandleRescan(request)
       \/ request.verb = "FULL_TELEMETRY" /\ HandleTelemetry(request)
  /\ inbox' = Tail(inbox)
  /\ UNCHANGED <<serving, charge, tray, dash, acts>>

(* A sweep or a probe of the timer.                                          *)
ObserveAgain ==
  /\ serving
  /\ \E mode \in Demoted(published, charge) : Publish(mode)
  /\ UNCHANGED <<serving, charge, inbox, answer, tray, dash, acts>>

(* A mode that is lost, a default, or a battery rule of the first sweep.     *)
DaemonStarts ==
  /\ ~serving /\ Act
  /\ serving' = TRUE
  /\ \E mode \in Offered : Publish(mode)
  /\ UNCHANGED <<charge, inbox, answer, tray, dash>>

DaemonStops ==
  /\ serving /\ Act
  /\ serving' = FALSE
  /\ inbox' = <<>>
  /\ UNCHANGED <<published, charge, answer, tray, dash, unseen>>

BatteryChanges ==
  /\ serving /\ Act
  /\ charge' \in {"ample", "low", "critical"} \ {charge}
  /\ \E mode \in Demoted(published, charge') : Publish(mode)
  /\ UNCHANGED <<serving, inbox, answer, tray, dash>>

-----------------------------------------------------------------------------
(* The tray.                                                                 *)

(* read_state: an override ends when the daemon publishes that very mode.    *)
TrayAfterRead == IF tray = published THEN NoMode ELSE tray
TrayShown == IF TrayAfterRead = NoMode THEN published ELSE TrayAfterRead

TrayReads ==
  /\ tray' = TrayAfterRead
  /\ UNCHANGED <<serving, published, charge, inbox, answer, dash, unseen, acts>>

(* Performance is not offered on a low battery: Balanced is taken instead.   *)
(* The answer of the daemon is not looked at.                                *)
TrayClick ==
  /\ HasRoom /\ Act
  /\ \E wanted \in Offered :
       LET mode == IF wanted = 0 /\ charge # "ample" THEN 1 ELSE wanted
       IN tray' = mode /\ inbox' = Post("tray", "PROFILE", mode)
  /\ UNCHANGED <<serving, published, charge, answer, dash, unseen>>

NewDash == [pc |-> "idle", override |-> NoMode, prev |-> published, latest |-> published,
            asked |-> NoMode]

(* "Open dashboard": whatever dashboard there is is ended, and a new one     *)
(* reads the shared state.  For the first of its tabs a rescan is asked for. *)
TrayOpensDashboard ==
  /\ HasRoom /\ Act
  /\ \E tab \in 0..2 :
       inbox' = Leave(IF tab = 0 THEN Post("tray", "RESCAN", NoMode) ELSE inbox)
  /\ dash' = NewDash
  /\ answer' = NoAnswer /\ unseen' = FALSE
  /\ UNCHANGED <<serving, published, charge, tray>>

TrayRestarts ==
  /\ tray # NoMode /\ Act
  /\ tray' = NoMode
  /\ UNCHANGED <<serving, published, charge, inbox, answer, dash, unseen>>

-----------------------------------------------------------------------------
(* The dashboard.                                                            *)

DashShownBy(d) == IF d.override = NoMode THEN d.latest ELSE d.override
DashShown == DashShownBy(dash)

(* The override ends when the mode it waits for is published, or when        *)
(* another one than was shown last is.                                       *)
ResolveByMatch(d, mode) == [d EXCEPT !.override = IF mode = @ THEN NoMode ELSE @]
ResolveOverride(d, mode) ==
  [d EXCEPT !.override = IF mode = @ \/ mode # d.prev THEN NoMode ELSE @]

Idle(d) == [d EXCEPT !.pc = "idle", !.asked = NoMode]
Settle(d) == [Idle(d) EXCEPT !.prev = DashShownBy(d)]
Adopt(d, mode) == [Idle(d) EXCEPT !.override = mode, !.prev = mode]

(* setProfile.                                                               *)
DashClick ==
  /\ dash.pc = "idle" /\ HasRoom /\ Act
  /\ \E mode \in Offered :
       /\ mode # 0 \/ charge = "ample"
       /\ inbox' = Post("dash", "PROFILE", mode)
       /\ dash' = IF serving THEN [dash EXCEPT !.pc = "setting", !.asked = mode]
                  ELSE Adopt(dash, mode)
  /\ UNCHANGED <<serving, published, charge, answer, tray, unseen>>

(* triggerRescan, on a thread of its own that ignores the answer.            *)
DashRescans ==
  /\ HasRoom /\ Act
  /\ inbox' = Post("gone", "RESCAN", NoMode)
  /\ UNCHANGED <<serving, published, charge, answer, tray, dash, unseen>>

(* onPollTimer: the shared state first, and the telemetry if it has moved.   *)
PollRead ==
  /\ dash.pc = "idle" /\ HasRoom
  /\ IF unseen \/ dash.latest # published
     THEN LET read == ResolveOverride([dash EXCEPT !.latest = published], published) IN
          /\ dash' = IF serving THEN [read EXCEPT !.pc = "asking"] ELSE Settle(read)
          /\ inbox' = Post("dash", "FULL_TELEMETRY", NoMode)
     ELSE dash' = Settle(dash) /\ UNCHANGED inbox
  /\ unseen' = FALSE
  /\ UNCHANGED <<serving, published, charge, answer, tray, acts>>

(* ingestTelemetryJson.                                                      *)
Ingest(d, mode) ==
  [ResolveOverride([d EXCEPT !.latest = mode], mode) EXCEPT !.prev = mode]

QueryAnswered ==
  /\ dash.pc # "idle" /\ answer # NoAnswer
  /\ dash' = CASE answer.says = "JSON" -> Settle(Ingest(dash, answer.mode))
               [] answer.says = "OK" -> Adopt(dash, dash.asked)
               [] answer.says = "ERROR" -> Idle(dash)
  /\ answer' = NoAnswer
  /\ UNCHANGED <<serving, published, charge, inbox, tray, unseen, acts>>

(* Neither kind of query waits for long.                                     *)
QueryTimesOut ==
  /\ dash.pc # "idle" /\ answer = NoAnswer
  /\ dash' = IF dash.pc = "setting" THEN Adopt(dash, dash.asked) ELSE Settle(dash)
  /\ inbox' = Leave(inbox)
  /\ UNCHANGED <<serving, published, charge, answer, tray, unseen, acts>>

-----------------------------------------------------------------------------

ClientsInit ==
  /\ serving = TRUE
  /\ published \in Offered
  /\ charge = "ample"
  /\ inbox = <<>> /\ answer = NoAnswer
  /\ tray = NoMode
  /\ dash = NewDash
  /\ unseen = FALSE
  /\ acts = 0

DashLoop == PollRead \/ QueryAnswered \/ QueryTimesOut

ClientsNext ==
  \/ Handle \/ ObserveAgain \/ DaemonStarts \/ DaemonStops \/ BatteryChanges
  \/ TrayReads \/ TrayClick \/ TrayOpensDashboard \/ TrayRestarts
  \/ DashClick \/ DashRescans \/ DashLoop

(* The daemon's timer, and the timers and event loops of the clients.        *)
ClientsFairness ==
  /\ WF_clientVars(ObserveAgain) /\ WF_clientVars(Handle)
  /\ WF_clientVars(DashLoop) /\ WF_clientVars(TrayReads)

ClientsSpec == ClientsInit /\ [][ClientsNext]_clientVars /\ ClientsFairness

-----------------------------------------------------------------------------
(* Properties.                                                               *)

(* An answer at the dashboard's socket fits what it waits for: the reply to  *)
(* a choice or a report.  A late answer, to a question it gave up or to the  *)
(* dashboard before it, is not taken for another's (query_daemon binds an    *)
(* address of its own for each call).                                        *)
AnswerIsOwn ==
  answer # NoAnswer =>
    \/ dash.pc = "setting" /\ answer.says \in {"OK", "ERROR"}
    \/ dash.pc = "asking" /\ answer.says = "JSON" /\ answer.mode \in Offered

(* One question at a time: at most one datagram waits whose answer would     *)
(* reach the dashboard, and none once the answer is there.                   *)
Questions == {i \in DOMAIN inbox : inbox[i].from = "dash"}
OneQuestion ==
  /\ \A i, j \in Questions : i = j
  /\ answer # NoAnswer \/ dash.pc = "idle" => Questions = {}

(* REF-REQ-091, REF-REQ-121.4: with a daemon that runs, the dashboard ends   *)
(* up showing what is published, whatever became of the choices made in it:  *)
(* sent to no daemon, refused, answered too late, or overtaken by the tray,  *)
(* a battery rule or a restart.                                              *)
DashboardConverges == <>[]serving => <>[](DashShown = published)

(* The same of the tray.                                                     *)
TrayConverges == <>[]serving => <>[](TrayShown = published)

=============================================================================
