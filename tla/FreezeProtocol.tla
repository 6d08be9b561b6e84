--------------------------- MODULE FreezeProtocol ---------------------------
(***************************************************************************)
(* Freezing a view (core/NavigationController.qml), the commands that      *)
(* carry it (core/Telemetry.qml) and the generation the helper pins        *)
(* (td_telemetry/engine.py), over the two pipes between them.              *)
(*                                                                         *)
(* Handlers of the QML thread are atomic, and so is one command or one     *)
(* sample of the helper; everything else interleaves.  A snapshot is its   *)
(* generation and the process groups it details.  One stretch with the     *)
(* view open is modelled; Supervisor has the opening, the closing and the  *)
(* reasons for which a helper is restarted.                                *)
(***************************************************************************)
EXTENDS Integers, Sequences

CONSTANTS
  Groups,        \* application groups the user may expand
  MaxGen,        \* bound: samples taken
  MaxRequests,   \* bound: freeze requests
  PipeLen,       \* bound: records in a pipe
  MaxExits,      \* bound: helpers that are lost
  FaultSets      \* what may happen in one behaviour: subsets of {"error", "rate", "exit", "reopen", "action"}

ASSUME BoundAssumption ==
  /\ MaxGen \in Nat /\ MaxRequests \in Nat /\ PipeLen \in Nat \ {0} /\ MaxExits \in Nat

VARIABLES
  frozen, groups,              \* navState: the flag, and what syncTelemetryScope derives from it
  freezePending, requestId,    \* the request the user waits for; its timer runs meanwhile
  live, display,               \* liveFrame and displayFrame
  detail, showAll,             \* detailFrame; an entity is selected with all its details
  pendingAction,               \* an audio action awaits its confirmation
  freezeSequence, scopeKey,    \* Telemetry: the last request, the last scope sent
  started, ready, backendError, stopping,
  toHelper, fromHelper,        \* the pipes
  up, full, pinned, scope,     \* helper: full, frozen_full, instance_groups
  scopeLost,                   \* history: the last scope that the helper read was discarded
  faults,                      \* the member of FaultSets that this behaviour may show
  gens, exits,                 \* counters of the bounds
  performed                    \* history: an audio action was performed for a frozen view

view   == <<frozen, groups>>
freeze == <<freezePending, requestId, freezeSequence>>
shown  == <<live, display, detail, showAll>>
host   == <<started, ready, backendError, stopping>>
helper == <<up, full, pinned, scope, scopeLost>>
hist   == <<faults, gens, exits, performed>>
vars   == <<view, freeze, shown, pendingAction, scopeKey, host, toHelper, fromHelper, helper, hist>>

Frames == [gen : 0..MaxGen, scope : SUBSET Groups]

NoFrame == [gen |-> 0, scope |-> {}]    \* no snapshot yet, or None

Details == [gen : 0..MaxGen, pinned : BOOLEAN]

NoDetail == [gen |-> 0, pinned |-> FALSE]    \* also an answer that says the data are gone

Commands ==
  [op : {"freeze"}, state : BOOLEAN, id : 1..MaxRequests]
    \cup [op : {"scope"}, groups : SUBSET Groups, frozen : BOOLEAN]
    \cup [op : {"inspect"}, frozen : BOOLEAN]
    \cup [op : {"audio-action"}, frozen : BOOLEAN]

Records ==
  [type : {"snapshot"}, frame : Frames]
    \cup [type : {"freeze-result"}, id : 1..MaxRequests, frozen : BOOLEAN, frame : Frames]
    \cup [type : {"scope-result"}, frame : Frames]
    \cup [type : {"detail"}, detail : Details]
    \cup [type : {"error"}]

NavOK ==
  /\ frozen \in BOOLEAN /\ groups \in SUBSET Groups
  /\ scopeKey \in (SUBSET Groups) \X BOOLEAN

RequestOK == freezePending \in BOOLEAN /\ requestId \in 0..MaxRequests /\ freezeSequence \in 0..MaxRequests

ShownOK == live \in Frames /\ display \in Frames /\ detail \in Details /\ showAll \in BOOLEAN

HostOK ==
  /\ pendingAction \in BOOLEAN
  /\ started \in BOOLEAN /\ ready \in BOOLEAN /\ backendError \in BOOLEAN /\ stopping \in BOOLEAN

ToHelperOK == toHelper \in Seq(Commands)

FromHelperOK == fromHelper \in Seq(Records) /\ (~up => fromHelper = <<>>)

HelperOK ==
  /\ up \in BOOLEAN /\ full \in Frames /\ pinned \in Frames /\ scope \in SUBSET Groups
  /\ scopeLost \in BOOLEAN

HistOK == gens \in 0..MaxGen /\ exits \in 0..MaxExits /\ faults \in FaultSets /\ performed \in BOOLEAN

TypeOK ==
  /\ NavOK /\ RequestOK /\ ShownOK /\ HostOK
  /\ ToHelperOK /\ FromHelperOK /\ HelperOK /\ HistOK

FreshHelper ==
  /\ up' = TRUE /\ full' = NoFrame /\ pinned' = NoFrame /\ scope' = {} /\ scopeLost' = FALSE

Init ==
  /\ frozen = FALSE /\ groups = {}
  /\ freezePending = FALSE /\ requestId = 0 /\ freezeSequence = 0
  /\ live = NoFrame /\ display = NoFrame /\ detail = NoDetail /\ showAll = FALSE
  /\ pendingAction = FALSE
  /\ scopeKey = <<{}, FALSE>>
  /\ started = FALSE /\ ready = FALSE /\ backendError = FALSE /\ stopping = FALSE
  /\ toHelper = <<>> /\ fromHelper = <<>>
  /\ up = FALSE /\ full = NoFrame /\ pinned = NoFrame /\ scope = {} /\ scopeLost = FALSE
  /\ faults \in FaultSets
  /\ gens = 0 /\ exits = 0 /\ performed = FALSE

-----------------------------------------------------------------------------
(* What the handlers of the view send. *)

\* Telemetry.send(): without a started helper the command is dropped.
Send(commands) ==
  /\ Len(toHelper) + Len(commands) <= PipeLen
  /\ toHelper' = IF started THEN toHelper \o commands ELSE toHelper

FreezeCommand(state) == [op |-> "freeze", state |-> state, id |-> freezeSequence + 1]

\* Mutant: the scope is not sent again when the flag alone changes.
ScopeCommand_GroupsOnly(fz, gs) ==
  IF scopeKey[1] = gs THEN <<>> ELSE <<[op |-> "scope", groups |-> gs, frozen |-> fz]>>

\* setInstanceGroups(): nothing is sent when neither the groups nor the flag changed.
ScopeCommand(fz, gs) ==
  IF scopeKey = <<gs, fz>> THEN <<>> ELSE <<[op |-> "scope", groups |-> gs, frozen |-> fz]>>

InspectCommand(fz) == [op |-> "inspect", frozen |-> fz]

\* navState changes, and onNavStateChanged calls syncTelemetryScope(), between other commands.
SetView(fz, gs, before, after) ==
  /\ frozen' = fz /\ groups' = gs
  /\ scopeKey' = <<gs, fz>>
  /\ Send(before \o ScopeCommand(fz, gs) \o after)

CanFreeze == freezeSequence < MaxRequests    \* bound

\* telemetry.freeze(false) on the way to a live view.
Release == <<FreezeCommand(FALSE)>>

-----------------------------------------------------------------------------
(* The user. *)

\* Mutant: a snapshot of an earlier helper will do.
Showing_AnyHelper == live # NoFrame

\* The helper of now has sent a snapshot.
Showing == ready /\ live # NoFrame

\* toggleFreeze().
Toggle ==
  /\ ~pendingAction
  /\ ~freezePending /\ Showing
  /\ CanFreeze
  /\ freezePending' = TRUE
  /\ requestId' = freezeSequence + 1 /\ freezeSequence' = freezeSequence + 1
  /\ Send(<<FreezeCommand(~frozen)>>)
  /\ UNCHANGED <<view, shown, pendingAction, scopeKey, host, fromHelper, helper, hist>>

\* chooseInstrument() and back() to another instrument: the new one starts live, with the
\* groups that its context brings.
SwitchInstrument(gs) ==
  /\ ~pendingAction
  /\ IF frozen \/ freezePending
     THEN /\ CanFreeze
          /\ SetView(FALSE, gs, Release, <<>>)
          /\ freezeSequence' = freezeSequence + 1
          /\ freezePending' = FALSE /\ requestId' = 0
          /\ display' = live
     ELSE SetView(FALSE, gs, <<>>, <<>>) /\ UNCHANGED <<freeze, display>>
  /\ detail' \in {NoDetail, detail} /\ showAll' = FALSE
  /\ UNCHANGED <<live, pendingAction, host, fromHelper, helper, hist>>

\* expandSelection(), focusSelection(), step(), reset() and back(): other groups, the same
\* instrument, and perhaps no details.
Regroup(gs) ==
  /\ ~pendingAction
  /\ SetView(frozen, gs, <<>>, <<>>)
  /\ detail' \in {NoDetail, detail} /\ showAll' \in {FALSE, showAll}
  /\ UNCHANGED <<freeze, live, display, pendingAction, host, fromHelper, helper, hist>>

\* pick(): the context of the entity may name another group; its details are requested.
Pick(gs) ==
  /\ ~pendingAction /\ display # NoFrame
  /\ SetView(frozen, gs, <<>>, <<InspectCommand(frozen)>>)
  /\ detail' = NoDetail
  /\ UNCHANGED <<freeze, live, display, showAll, pendingAction, host, fromHelper, helper, hist>>

\* inspectMore() and detailPage().
InspectMore ==
  /\ ~pendingAction /\ display # NoFrame
  /\ Send(<<InspectCommand(frozen)>>)
  /\ showAll' \in BOOLEAN
  /\ UNCHANGED <<view, freeze, live, display, detail, pendingAction, scopeKey, host, fromHelper, helper, hist>>

\* requestAction(): refused in a frozen view.
RequestAction ==
  /\ "action" \in faults
  /\ ~frozen /\ display # NoFrame
  /\ pendingAction' = TRUE
  /\ UNCHANGED <<view, freeze, shown, scopeKey, host, toHelper, fromHelper, helper, hist>>

\* confirmAction(), or the cancel button of the sheet.
ConfirmAction(sure) ==
  /\ pendingAction
  /\ pendingAction' = FALSE
  /\ IF sure THEN Send(<<[op |-> "audio-action", frozen |-> frozen]>>) ELSE UNCHANGED toHelper
  /\ UNCHANGED <<view, freeze, shown, scopeKey, host, fromHelper, helper, hist>>

\* The host summons the view again while it is open: open() starts from a fresh navState.
Reopen(gs) ==
  /\ "reopen" \in faults
  /\ SetView(FALSE, gs, <<>>, <<>>)
  /\ freezePending' = FALSE /\ requestId' = 0
  /\ detail' = NoDetail /\ showAll' = FALSE /\ pendingAction' = FALSE
  /\ UNCHANGED <<freezeSequence, live, display, host, fromHelper, helper, hist>>

\* freezeTimeout: the view resumes live state and tells the helper.
FreezeTimeout ==
  /\ freezePending /\ CanFreeze
  /\ freezePending' = FALSE /\ requestId' = 0
  /\ SetView(FALSE, groups, Release, <<>>)
  /\ freezeSequence' = freezeSequence + 1
  /\ display' = live
  /\ UNCHANGED <<live, detail, showAll, pendingAction, host, fromHelper, helper, hist>>

-----------------------------------------------------------------------------
(* Records from the helper. *)

Receive(type) == fromHelper # <<>> /\ Head(fromHelper).type = type /\ fromHelper' = Tail(fromHelper)

\* onBackendErrorChanged: a new message ends the wait for a freeze.
NewError ==
  /\ backendError' = TRUE
  /\ freezePending' = FALSE /\ requestId' = 0
  /\ UNCHANGED freezeSequence

\* A message that is already on screen changes nothing.
SameError == backendError /\ UNCHANGED <<backendError, freeze>>

\* onReceived: a live view follows, and refreshes the details it shows.
ReceiveSnapshot ==
  /\ Receive("snapshot")
  /\ ready' = TRUE /\ backendError' = FALSE
  /\ live' = Head(fromHelper).frame
  /\ IF frozen
     THEN UNCHANGED <<display, toHelper>>
     ELSE /\ display' = live'
          /\ IF showAll THEN Send(<<InspectCommand(FALSE)>>) ELSE UNCHANGED toHelper
  /\ UNCHANGED <<view, freeze, detail, showAll, pendingAction, scopeKey, started, stopping, helper, hist>>

\* Mutant: any answer is taken for the one awaited.
Awaited_Any(answer) == freezePending

Awaited(answer) == freezePending /\ answer.id = requestId

\* onFreezeReceived.
ReceiveFreeze ==
  LET answer == Head(fromHelper) IN
  /\ Receive("freeze-result")
  /\ IF Awaited(answer)
     THEN /\ freezePending' = FALSE /\ requestId' = 0
          /\ SetView(answer.frozen, groups, <<>>, <<>>)
          /\ display' = IF answer.frozen THEN answer.frame ELSE live
          /\ detail' = NoDetail
     ELSE UNCHANGED <<view, freezePending, requestId, scopeKey, toHelper, display, detail>>
  /\ UNCHANGED <<freezeSequence, live, showAll, pendingAction, host, helper, hist>>

\* onScopeReceived.
ReceiveScope ==
  /\ Receive("scope-result")
  /\ IF frozen
     THEN display' = Head(fromHelper).frame /\ detail' = NoDetail
     ELSE UNCHANGED <<display, detail>>
  /\ UNCHANGED <<view, freeze, live, showAll, pendingAction, scopeKey, host, toHelper, helper, hist>>

\* onDetailReceived: for the selected entity, or for one that no longer is.
ReceiveDetail ==
  /\ Receive("detail")
  /\ detail' \in {Head(fromHelper).detail, detail}
  /\ UNCHANGED <<view, freeze, live, display, showAll, pendingAction, scopeKey, host, toHelper, helper, hist>>

ReceiveError ==
  /\ Receive("error")
  /\ NewError \/ SameError
  /\ UNCHANGED <<view, shown, pendingAction, scopeKey, started, ready, stopping, toHelper, helper, hist>>

-----------------------------------------------------------------------------
(* The helper. *)

Answer(record) == Len(fromHelper) < PipeLen /\ fromHelper' = Append(fromHelper, record)

\* A periodic sample replaces the live generation and leaves the pinned one.
Sample ==
  /\ up /\ gens < MaxGen
  /\ gens' = gens + 1
  /\ full' = [gen |-> gens', scope |-> scope]
  /\ Answer([type |-> "snapshot", frame |-> full'])
  /\ UNCHANGED <<view, freeze, shown, pendingAction, scopeKey, host, toHelper>>
  /\ UNCHANGED <<up, pinned, scope, scopeLost, faults, exits, performed>>

\* A sample fails and an error is written, perhaps with its generation already in place
\* (transport() comes last).
SampleFails ==
  /\ "error" \in faults
  /\ up
  /\ Answer([type |-> "error"])
  /\ \/ UNCHANGED <<full, gens>>
     \/ gens < MaxGen /\ gens' = gens + 1 /\ full' = [gen |-> gens', scope |-> scope]
  /\ UNCHANGED <<view, freeze, shown, pendingAction, scopeKey, host, toHelper>>
  /\ UNCHANGED <<up, pinned, scope, scopeLost, faults, exits, performed>>

Command(op) == up /\ toHelper # <<>> /\ Head(toHelper).op = op /\ toHelper' = Tail(toHelper)

\* main(): a command over the rate is read and dropped with an error, whatever it asks for.
Discard ==
  /\ "rate" \in faults
  /\ up /\ toHelper # <<>> /\ toHelper' = Tail(toHelper)
  /\ scopeLost' = (scopeLost \/ Head(toHelper).op = "scope")
  /\ Answer([type |-> "error"])
  /\ UNCHANGED <<view, freeze, shown, pendingAction, scopeKey, host, up, full, pinned, scope, hist>>

\* command('freeze').
DoFreeze ==
  LET c == Head(toHelper) IN
  /\ Command("freeze")
  /\ pinned' = IF c.state THEN full ELSE NoFrame
  /\ Answer([type |-> "freeze-result", id |-> c.id, frozen |-> c.state, frame |-> pinned'])
  /\ UNCHANGED <<view, freeze, shown, pendingAction, scopeKey, host, up, full, scope, scopeLost, hist>>

\* Mutant: a frozen scope is derived from the live generation.
Scoped_Live(gs) == [gen |-> full.gen, scope |-> gs]

\* _scoped_snapshot() of the pinned generation.
Scoped(gs) == [gen |-> pinned.gen, scope |-> gs]

\* command('scope'): kept for the next samples; a frozen view also gets its snapshot again.
DoScope ==
  LET c == Head(toHelper) IN
  /\ Command("scope")
  /\ scope' = c.groups /\ scopeLost' = FALSE
  /\ IF c.frozen /\ pinned # NoFrame
     THEN Answer([type |-> "scope-result", frame |-> Scoped(c.groups)])
     ELSE UNCHANGED fromHelper
  /\ UNCHANGED <<view, freeze, shown, pendingAction, scopeKey, host, up, full, pinned, hist>>

\* Mutant: a frozen inspection falls back to the live generation.
Inspected_Live(fz) ==
  IF fz THEN [gen |-> full.gen, pinned |-> TRUE] ELSE [gen |-> full.gen, pinned |-> FALSE]

\* inspect(): a frozen view whose generation was lost is told so.
Inspected(fz) ==
  IF fz THEN (IF pinned = NoFrame THEN NoDetail ELSE [gen |-> pinned.gen, pinned |-> TRUE])
        ELSE [gen |-> full.gen, pinned |-> FALSE]

DoInspect ==
  /\ Command("inspect")
  /\ Answer([type |-> "detail", detail |-> Inspected(Head(toHelper).frozen)])
  /\ UNCHANGED <<view, freeze, shown, pendingAction, scopeKey, host, helper, hist>>

\* Mutant: the helper trusts the view.
Refused_Never == FALSE

\* An action is refused while a generation is pinned.
Refused == pinned # NoFrame

\* command('audio-action').
DoAction ==
  /\ Command("audio-action")
  /\ IF Refused
     THEN Answer([type |-> "error"]) /\ UNCHANGED performed
     ELSE performed' = (performed \/ Head(toHelper).frozen) /\ UNCHANGED fromHelper
  /\ UNCHANGED <<view, freeze, shown, pendingAction, scopeKey, host, helper, faults, gens, exits>>

-----------------------------------------------------------------------------
(* The life of the helper. *)

\* restartBackend(): the old helper is signalled, and may still print.
RestartBackend ==
  /\ "exit" \in faults
  /\ up /\ ~stopping
  /\ stopping' = TRUE /\ started' = FALSE /\ ready' = FALSE
  /\ NewError
  /\ UNCHANGED <<view, shown, pendingAction, scopeKey, toHelper, fromHelper, helper, hist>>

\* onExited; what is left in the pipes is lost.
HelperExits ==
  /\ "exit" \in faults
  /\ up /\ exits < MaxExits
  /\ exits' = exits + 1
  /\ up' = FALSE /\ full' = NoFrame /\ pinned' = NoFrame /\ scope' = {} /\ scopeLost' = FALSE
  /\ toHelper' = <<>> /\ fromHelper' = <<>>
  /\ started' = FALSE /\ ready' = FALSE /\ stopping' = FALSE
  /\ IF stopping THEN UNCHANGED <<backendError, freeze>> ELSE NewError
  /\ UNCHANGED <<view, shown, pendingAction, scopeKey, faults, gens, performed>>

\* Mutant: nothing is sent to a new helper.
HelperStarts_NoScope ==
  /\ ~up
  /\ FreshHelper
  /\ started' = TRUE /\ ready' = FALSE
  /\ toHelper' = <<>>
  /\ UNCHANGED <<view, freeze, shown, pendingAction, scopeKey, backendError, stopping, fromHelper, hist>>

\* onStarted: the scope is sent to the new helper whatever was sent to the old one.
HelperStarts ==
  /\ ~up
  /\ FreshHelper
  /\ started' = TRUE /\ ready' = FALSE
  /\ toHelper' = <<[op |-> "scope", groups |-> scopeKey[1], frozen |-> FALSE]>>
  /\ UNCHANGED <<view, freeze, shown, pendingAction, scopeKey, backendError, stopping, fromHelper, hist>>

Next ==
  \/ Toggle \/ InspectMore \/ FreezeTimeout \/ RequestAction
  \/ \E gs \in SUBSET Groups : SwitchInstrument(gs) \/ Regroup(gs) \/ Pick(gs) \/ Reopen(gs)
  \/ \E sure \in BOOLEAN : ConfirmAction(sure)
  \/ ReceiveSnapshot \/ ReceiveFreeze \/ ReceiveScope \/ ReceiveDetail \/ ReceiveError
  \/ Sample \/ SampleFails
  \/ DoFreeze \/ DoScope \/ DoInspect \/ DoAction \/ Discard
  \/ RestartBackend \/ HelperExits \/ HelperStarts

Spec == Init /\ [][Next]_vars

-----------------------------------------------------------------------------
(* Properties. *)

InFlight(op, type) ==
  \/ \E i \in DOMAIN toHelper : toHelper[i].op = op
  \/ \E i \in DOMAIN fromHelper : fromHelper[i].type = type

\* DATA-MODEL.md, "request IDs reject stale replies": once no freeze is on its way, a frozen
\* view shows the generation the helper has pinned, unless the helper lost it.
FrozenShowsPinned ==
  frozen /\ ~InFlight("freeze", "freeze-result") /\ pinned # NoFrame
    => display.gen = pinned.gen

\* A frozen view keeps its generation, whatever scopes are requested and samples arrive.
FrozenViewStays == [][frozen /\ frozen' => display'.gen = display.gen]_vars

\* "Later child-socket pages come from that exact generation": details answered for a frozen
\* view belong to the generation it shows, whatever happened while they were on their way.
FrozenAnswerExact == frozen /\ detail.pinned => detail.gen = display.gen

\* A helper that has read every command details the groups the view asks for, also after a
\* restart, unless it discarded the last scope it read for its rate: setInstanceGroups() sends a
\* scope once, and nothing asks for that one again.
ScopeDelivered ==
  started /\ ~scopeLost /\ ~InFlight("scope", "scope-result") => scope = groups

\* "X changes instance scope while frozen": the frozen view ends up with the groups it asked for,
\* unless the last scope that the helper read was discarded for its rate.
FrozenScopeShown ==
  frozen /\ started /\ ~scopeLost /\ pinned # NoFrame
    /\ ~InFlight("freeze", "freeze-result") /\ ~InFlight("scope", "scope-result")
    => display.scope = groups

\* DATA-MODEL.md, "A frozen entity detail comes from that frozen snapshot even after live changes."
FrozenDetailExact == frozen /\ detail # NoDetail => detail.gen = display.gen

\* SECURITY-PRIVACY.md, "Opted-in actions ... are disabled while frozen": also when the
\* confirmation was opened on a live view, as long as the helper keeps its pinned generation.
NoActionWhileFrozen == exits = 0 => ~performed

\* What the view promises while commands and answers cross and helpers come and go: it never
\* freezes at a generation older than the one on screen, keeps it, and is told of no other.
Contract == INSTANCE FreezeContract WITH
  generation <- display.gen, details <- IF detail.pinned THEN detail.gen ELSE 0

FreezeContractSpec == Contract!Spec

=============================================================================
