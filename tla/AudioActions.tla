---------------------------- MODULE AudioActions ----------------------------
(***************************************************************************)
(* td_telemetry/audio.py: muting a node, making it the default, and undo.  *)
(* A node is selected by its serial in the graph on display, which may be  *)
(* old; wpctl is given the object ID, which PipeWire uses again.           *)
(*                                                                         *)
(* PipeWire, its session manager and its users change the graph between    *)
(* any two steps.  Nodes are all sinks, or all sources.                    *)
(***************************************************************************)
EXTENDS Integers, FiniteSets

CONSTANTS
  Nodes,       \* serials of a core session: never used again
  ObjectIds,
  NoNode,
  MaxChanges, MaxRequests   \* bounds: changes of the graph by others, requests

ASSUME AudioAssumption == NoNode \notin Nodes /\ MaxChanges \in Nat /\ MaxRequests \in Nat

VARIABLES
  bound,       \* object IDs of the nodes: the graph
  gone,        \* nodes of the past
  muted, default,   \* the settings
  displayed,   \* the graph as of the last pw-dump, with the settings
  request,     \* the action under way, a set of at most one
  undo,        \* the action that undoes the last one, a set of at most one
  changes, requests,
  dirty,       \* history: others changed the graph since the last action was asked for
  previously, disturbed,   \* history: the settings before the last confirmed action, and others' changes since
  struck       \* history: the nodes that wpctl changed in the last action

graph == <<bound, gone, muted, default>>
audioVars == <<graph, displayed, request, undo, changes, requests, dirty, previously, disturbed, struck>>

Settings == [muted : SUBSET Nodes, default : Nodes \cup {NoNode}]
Graphs == [bound : SUBSET (Nodes \X ObjectIds), muted : SUBSET Nodes, default : Nodes \cup {NoNode}]
Inverses == [op : {"mute"}, key : Nodes, value : BOOLEAN] \cup [op : {"default"}, key : Nodes]

Actions == [op : {"mute", "default"}, key : Nodes, id : ObjectIds, value : BOOLEAN, isUndo : BOOLEAN,
            was : Settings, inverse : SUBSET Inverses]

Now == [bound |-> bound, muted |-> muted, default |-> default]
Set == [muted |-> muted, default |-> default]

\* At most one node has an object ID at a time.
GraphOK ==
  /\ Now \in Graphs /\ displayed \in Graphs /\ gone \subseteq Nodes
  /\ \A b, c \in bound : b[2] = c[2] => b = c

AudioTypeOK ==
  /\ GraphOK
  /\ request \subseteq Actions /\ \A r, s \in request : r = s
  /\ undo \subseteq Inverses
  /\ previously \in Settings /\ struck \subseteq Nodes

AudioInit ==
  /\ \E n \in Nodes, i \in ObjectIds : bound = {<<n, i>>}
  /\ muted = {} /\ default = NoNode /\ gone = {}
  /\ displayed = Now /\ request = {} /\ undo = {} /\ changes = 0 /\ requests = 0
  /\ dirty = FALSE /\ previously = Set /\ disturbed = FALSE /\ struck = {}

-----------------------------------------------------------------------------
(* AudioProvider. *)

\* sample(), every 2 s: the graph that is shown.
Dump ==
  /\ request = {} /\ displayed' = Now
  /\ UNCHANGED <<graph, request, undo, changes, requests, dirty, previously, disturbed, struck>>

\* The object ID and the mute state of the node, as of the last pw-dump.
ObjectOf(key, dump) == {b[2] : b \in {b \in dump.bound : b[1] = key}}

\* Mutant: an action uses the graph on display.
Refreshed_Shown == displayed

\* pw-dump runs before every action.
Refreshed == Now

\* Mutant: undoing sets again what the action has set.
UndoOf_Requested(op, key, value, dump) ==
  IF op = "mute" THEN {[op |-> "mute", key |-> key, value |-> value]}
  ELSE IF dump.default = NoNode THEN {} ELSE {[op |-> "default", key |-> dump.default]}

\* The undo of an action; making a node the default when there was none has no undo.
UndoOf(op, key, value, dump) ==
  IF op = "mute" THEN {[op |-> "mute", key |-> key, value |-> key \in dump.muted]}
  ELSE IF dump.default = NoNode THEN {} ELSE {[op |-> "default", key |-> dump.default]}

\* action() up to wpctl, on the graph after a refresh; value is what to set, or none to toggle.
Begin(op, key, values, isUndo) ==
  LET dump   == Refreshed
      toggle == key \notin dump.muted
      value  == IF values = {} THEN toggle ELSE CHOOSE v \in values : TRUE
  IN  /\ displayed' = dump /\ dirty' = FALSE
      /\ request' = IF ObjectOf(key, dump) = {} THEN {}
                    ELSE {[op |-> op, key |-> key, id |-> CHOOSE i \in ObjectOf(key, dump) : TRUE, value |-> value,
                           isUndo |-> isUndo, was |-> [muted |-> dump.muted, default |-> dump.default],
                           inverse |-> UndoOf(op, key, value, dump)]}
      /\ struck' = {}
      /\ UNCHANGED <<graph, changes, previously, disturbed>>

Asked == request = {} /\ requests < MaxRequests /\ requests' = requests + 1

\* Some node on display is selected; pw-dump may fail, and then nothing happens.
Select ==
  /\ Asked
  /\ \E b \in displayed.bound, op \in {"mute", "default"} :
       Begin(op, b[1], {}, FALSE)
  /\ UNCHANGED undo

\* The record is gone once undo is asked for, whatever becomes of it.
Undo ==
  /\ Asked /\ undo' = {}
  /\ \E u \in undo : \/ Begin(u.op, u.key, IF u.op = "mute" THEN {u.value} ELSE {}, TRUE)
                     \/ UNCHANGED <<graph, displayed, dirty, request, changes, previously, disturbed, struck>>

\* What wpctl does to whatever has the object ID by now.
Struck(r) == {b[1] : b \in {b \in bound : b[2] = r.id}}

Effect(r) ==
  IF r.op = "mute" THEN /\ muted' = IF r.value THEN muted \cup Struck(r) ELSE muted \ Struck(r)
                        /\ UNCHANGED default
  ELSE default' \in Struck(r) /\ UNCHANGED muted

\* wpctl succeeds, and the action becomes the one that undo undoes.
Confirmed ==
  \E r \in request :
    /\ Struck(r) # {} /\ Effect(r) /\ struck' = Struck(r)
    /\ undo' = r.inverse /\ previously' = r.was /\ disturbed' = dirty
    /\ request' = {}
    /\ UNCHANGED <<bound, gone, displayed, changes, requests, dirty>>

\* wpctl fails, or is stopped at its deadline, which may be too late; undo is what it was.
Refused ==
  \E r \in request :
    /\ \/ UNCHANGED <<graph, disturbed, struck>>
       \/ Struck(r) # {} /\ Effect(r) /\ struck' = Struck(r) /\ disturbed' = TRUE /\ UNCHANGED <<bound, gone>>
    /\ request' = {}
    /\ UNCHANGED <<displayed, undo, changes, requests, dirty, previously>>

-----------------------------------------------------------------------------
(* PipeWire. *)

Change == changes < MaxChanges /\ changes' = changes + 1 /\ dirty' = TRUE /\ disturbed' = TRUE
          /\ UNCHANGED <<displayed, request, undo, requests, previously, struck>>

Appears(n, i) ==
  /\ Change
  /\ n \notin gone \cup {b[1] : b \in bound} /\ i \notin {b[2] : b \in bound}
  /\ bound' = bound \cup {<<n, i>>} /\ UNCHANGED <<gone, muted, default>>

\* Another node becomes the default, or none does.
Disappears(b) ==
  /\ Change
  /\ b \in bound /\ bound' = bound \ {b} /\ gone' = gone \cup {b[1]} /\ muted' = muted \ {b[1]}
  /\ default' \in IF default = b[1] THEN {NoNode} \cup {c[1] : c \in bound'} ELSE {default}

SetByOthers(n) ==
  /\ Change
  /\ n \in {b[1] : b \in bound}
  /\ \/ muted' = (IF n \in muted THEN muted \ {n} ELSE muted \cup {n}) /\ UNCHANGED default
     \/ default' = n /\ UNCHANGED muted
  /\ UNCHANGED <<bound, gone>>

AudioNext ==
  \/ Dump \/ Select \/ Undo \/ Confirmed \/ Refused
  \/ \E n \in Nodes : SetByOthers(n) \/ \E i \in ObjectIds : Appears(n, i) \/ Disappears(<<n, i>>)

AudioSpec == AudioInit /\ [][AudioNext]_audioVars

-----------------------------------------------------------------------------
(* Properties. *)

\* wpctl changes the node that was selected and no other, however old the graph on display is,
\* unless others changed the graph after the action was asked for.
HitsSelected ==
  [][ \A r \in request : request' = {} /\ struck' # struck => struck' = {r.key} \/ dirty ]_audioVars

\* An undo brings back the settings before the action that was confirmed last, if nothing but
\* the helper's confirmed actions has changed the graph since it was asked for.
UndoRestores ==
  [][ \A r \in request :
        Confirmed /\ r.isUndo /\ ~disturbed /\ ~dirty => [muted |-> muted', default |-> default'] = previously ]_audioVars

=============================================================================
