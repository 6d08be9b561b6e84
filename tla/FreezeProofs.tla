----------------------------- MODULE FreezeProofs -----------------------------
(***************************************************************************)
(* Proofs about FreezeProtocol: the types, that a frozen view shows and is *)
(* told of the generation the helper has pinned and nothing else, that the *)
(* helper learns the scope of the view, and that a frozen view refuses     *)
(* actions.                                                                *)
(***************************************************************************)
EXTENDS FreezeProtocol, SequenceTheorems, TLAPS

\* A freeze or a thaw.
IsFreeze(c) == c.op = "freeze"

\* A question about the pinned generation.
ForFrozen(c) == c.op \in {"scope", "inspect"} /\ c.frozen

\* An action that was confirmed in a frozen view.
Confirmed(c) == c.op = "audio-action" /\ c.frozen

\* What a view that is frozen iff fz may send beside freezes and confirmed actions.
Plain(c, fz) == ~IsFreeze(c) /\ ~Confirmed(c) /\ (ForFrozen(c) => fz)

\* No freeze, no confirmed action, nothing about the pinned generation.
Aside(c) == ~IsFreeze(c) /\ ~Confirmed(c) /\ ~ForFrozen(c)

\* As Plain, with a confirmed action of a frozen view.
Quiet(c, fz) == ~IsFreeze(c) /\ (Confirmed(c) => frozen /\ pendingAction) /\ (ForFrozen(c) => fz)

\* A freeze is a command.
LEMMA FreezeTyped ==
  ASSUME RequestOK, CanFreeze, NEW state \in BOOLEAN
  PROVE  /\ FreezeCommand(state) \in Commands
         /\ freezeSequence + 1 \in 1..MaxRequests
  BY BoundAssumption DEF RequestOK, CanFreeze, FreezeCommand, Commands

\* An inspect is a command.
LEMMA InspectTyped ==
  ASSUME NEW fz \in BOOLEAN
  PROVE  /\ InspectCommand(fz) \in Commands
         /\ Plain(InspectCommand(fz), fz)
  BY DEF InspectCommand, Commands, Plain, IsFreeze, Confirmed, ForFrozen

\* A scope request is a command.
LEMMA ScopeTyped ==
  ASSUME NEW fz \in BOOLEAN, NEW gs \in SUBSET Groups
  PROVE  /\ ScopeCommand(fz, gs) \in Seq(Commands)
         /\ \A i \in 1..Len(ScopeCommand(fz, gs)) :
              Plain(ScopeCommand(fz, gs)[i], fz)
<1> DEFINE c == [op |-> "scope", groups |-> gs, frozen |-> fz]
<1>1. c \in Commands /\ Plain(c, fz)  BY DEF Commands, Plain, IsFreeze, Confirmed, ForFrozen
<1>2. ScopeCommand(fz, gs) = <<>> \/ ScopeCommand(fz, gs) = <<c>>  BY DEF ScopeCommand
<1> HIDE DEF c
<1>3. CASE ScopeCommand(fz, gs) = <<>>  BY <1>3
<1>4. CASE ScopeCommand(fz, gs) = <<c>>
  <2>1. <<c>> \in Seq(Commands) /\ Len(<<c>>) = 1 /\ <<c>>[1] = c  BY <1>1
  <2>2. \A i \in 1..1 : i = 1  OBVIOUS
  <2> QED  BY <1>1, <1>4, <2>1, <2>2
<1> QED  BY <1>2, <1>3, <1>4

\* What is sent follows what is in the pipe, or is dropped.
LEMMA SendExtends ==
  ASSUME ToHelperOK, NEW s \in Seq(Commands), Send(s)
  PROVE  /\ toHelper' \in Seq(Commands)
         /\ \/ toHelper' = toHelper
            \/ /\ Len(toHelper') = Len(toHelper) + Len(s)
               /\ \A i \in 1..Len(toHelper) : toHelper'[i] = toHelper[i]
               /\ \A i \in Len(toHelper) + 1 .. Len(toHelper') : toHelper'[i] = s[i - Len(toHelper)]
<1>1. CASE toHelper' = toHelper  BY <1>1 DEF ToHelperOK
<1>2. CASE toHelper' = toHelper \o s  BY <1>2, ConcatProperties DEF ToHelperOK
<1> QED  BY <1>1, <1>2 DEF Send

\* The view is on the way with its commands; nothing that it sends is a freeze.
Pushed(fz) ==
  /\ toHelper' \in Seq(Commands)
  /\ Len(toHelper') >= Len(toHelper)
  /\ \A i \in 1..Len(toHelper) : toHelper'[i] = toHelper[i]
  /\ \A i \in Len(toHelper) + 1 .. Len(toHelper') : Quiet(toHelper'[i], fz)

\* The same, behind a freeze with the next number.
PushedFreeze(c) ==
  /\ toHelper' \in Seq(Commands)
  /\ Len(toHelper') >= Len(toHelper)
  /\ \A i \in 1..Len(toHelper) : toHelper'[i] = toHelper[i]
  /\ \A i \in Len(toHelper) + 1 .. Len(toHelper') :
       \/ i = Len(toHelper) + 1 /\ toHelper'[i] = c
       \/ i # Len(toHelper) + 1 /\ Aside(toHelper'[i])

\* A step that sends nothing pushes.
LEMMA QuietPushed ==
  ASSUME ToHelperOK, NEW fz, UNCHANGED toHelper
  PROVE  Pushed(fz)
  BY DEF ToHelperOK, Pushed

\* A list of commands that are no freeze pushes, if the view that sends them may.
LEMMA SendPushed ==
  ASSUME ToHelperOK, NEW fz, NEW s \in Seq(Commands), Send(s),
         \A i \in 1..Len(s) : Quiet(s[i], fz)
  PROVE  Pushed(fz)
<1>1. Len(s) \in Nat /\ Len(toHelper) \in Nat  BY DEF ToHelperOK
<1> QED  BY <1>1, SendExtends DEF Pushed

\* One command is sent, or dropped.
LEMMA SendOne ==
  ASSUME ToHelperOK, NEW c \in Commands, Send(<<c>>)
  PROVE  /\ Len(toHelper) \in Nat /\ Len(toHelper') \in Nat
         /\ Len(toHelper') >= Len(toHelper)
         /\ \A i \in 1..Len(toHelper) : toHelper'[i] = toHelper[i]
         /\ \A i \in Len(toHelper) + 1 .. Len(toHelper') : i = Len(toHelper) + 1 /\ toHelper'[i] = c
<1>1. <<c>> \in Seq(Commands) /\ Len(<<c>>) = 1 /\ <<c>>[1] = c  OBVIOUS
<1>2. Len(toHelper) \in Nat  BY DEF ToHelperOK
<1>3. toHelper' \in Seq(Commands)  BY <1>1, SendExtends
<1>4. Len(toHelper') \in Nat  BY <1>3
<1>5. CASE toHelper' = toHelper
  <2>1. Len(toHelper') = Len(toHelper) /\ Len(toHelper) + 1 .. Len(toHelper) = {}  BY <1>2, <1>5
  <2> QED  BY <1>2, <1>4, <1>5, <2>1
<1>6. CASE /\ Len(toHelper') = Len(toHelper) + Len(<<c>>)
           /\ \A i \in 1..Len(toHelper) : toHelper'[i] = toHelper[i]
           /\ \A i \in Len(toHelper) + 1 .. Len(toHelper') : toHelper'[i] = <<c>>[i - Len(toHelper)]
  <2>1. ASSUME NEW i \in Len(toHelper) + 1 .. Len(toHelper')
        PROVE  i = Len(toHelper) + 1 /\ toHelper'[i] = c
    <3>1. i = Len(toHelper) + 1 /\ i - Len(toHelper) = 1  BY <1>1, <1>2, <1>6
    <3> QED  BY <1>1, <1>6, <3>1
  <2> QED  BY <1>1, <1>2, <1>4, <1>6, <2>1
<1> QED  BY <1>1, <1>5, <1>6, SendExtends

\* One plain command pushes, whatever the view.
LEMMA OnePushed ==
  ASSUME ToHelperOK, NEW fz, NEW c \in Commands, Quiet(c, fz), Send(<<c>>) \/ UNCHANGED toHelper
  PROVE  Pushed(fz)
<1>1. <<c>> \in Seq(Commands) /\ \A i \in 1..Len(<<c>>) : <<c>>[i] = c  OBVIOUS
<1>2. \A i \in 1..Len(<<c>>) : Quiet(<<c>>[i], fz)  BY <1>1
<1>3. CASE Send(<<c>>)  BY <1>1, <1>2, <1>3, SendPushed
<1> QED  BY <1>3, QuietPushed

\* A change of the view sends a scope, and details may be asked for behind it.
LEMMA ViewPushed ==
  ASSUME ToHelperOK, NEW fz \in BOOLEAN, NEW gs \in SUBSET Groups, NEW after \in Seq(Commands),
         \A i \in 1..Len(after) : Plain(after[i], fz),
         SetView(fz, gs, <<>>, after)
  PROVE  Pushed(fz)
<1> DEFINE sc == ScopeCommand(fz, gs)
           s == <<>> \o sc \o after
<1>1. sc \in Seq(Commands) /\ \A i \in 1..Len(sc) : Plain(sc[i], fz)
  BY ScopeTyped
<1>2. Send(s)  BY DEF SetView
<1> HIDE DEF sc
<1>3. <<>> \o sc = sc  BY <1>1
<1>4. s \in Seq(Commands) /\ Len(s) = Len(sc) + Len(after)
      /\ \A i \in 1..Len(s) : s[i] = IF i <= Len(sc) THEN sc[i] ELSE after[i - Len(sc)]
  BY <1>1, <1>3, ConcatProperties
<1> HIDE DEF s
<1>5. \A i \in 1..Len(s) : Quiet(s[i], fz)
  <2>1. Len(sc) \in Nat /\ Len(after) \in Nat  BY <1>1
  <2>2. ASSUME NEW i \in 1..Len(s), i <= Len(sc) PROVE Quiet(s[i], fz)
    <3>1. i \in 1..Len(sc) /\ s[i] = sc[i]  BY <1>4, <2>1, <2>2
    <3> QED  BY <1>1, <3>1 DEF Plain, Quiet
  <2>3. ASSUME NEW i \in 1..Len(s), ~(i <= Len(sc)) PROVE Quiet(s[i], fz)
    <3>1. i - Len(sc) \in 1..Len(after) /\ s[i] = after[i - Len(sc)]  BY <1>4, <2>1, <2>3
    <3> QED  BY <3>1 DEF Plain, Quiet
  <2> QED  BY <2>2, <2>3
<1> QED  BY <1>2, <1>4, <1>5, SendPushed

\* What a release of the pinned generation sends pushes.
LEMMA ReleasePushed ==
  ASSUME ToHelperOK, RequestOK, CanFreeze, NEW gs \in SUBSET Groups,
         SetView(FALSE, gs, Release, <<>>)
  PROVE  PushedFreeze(FreezeCommand(FALSE))
<1> DEFINE sc == ScopeCommand(FALSE, gs)
           c == FreezeCommand(FALSE)
           s == Release \o sc \o <<>>
<1>1. sc \in Seq(Commands) /\ \A i \in 1..Len(sc) : Aside(sc[i])
  BY ScopeTyped DEF Plain, Aside
<1> SUFFICES PushedFreeze(c)  OBVIOUS
<1>2. c \in Commands  BY FreezeTyped
<1>3. Send(s)  BY DEF SetView
<1>4. Release = <<c>>  BY DEF Release
<1> HIDE DEF sc, c
<1>5. <<c>> \in Seq(Commands) /\ Len(<<c>>) = 1 /\ <<c>>[1] = c  BY <1>2
<1>6. s = <<c>> \o sc
  <2>1. <<c>> \o sc \in Seq(Commands)  BY <1>1, <1>5
  <2> QED  BY <1>4, <2>1, ConcatEmptySeq
<1> HIDE DEF s
<1>7. /\ s \in Seq(Commands)
      /\ Len(s) = 1 + Len(sc)
      /\ \A i \in 1..Len(s) : s[i] = IF i <= 1 THEN <<c>>[i] ELSE sc[i - 1]
  BY <1>1, <1>5, <1>6, ConcatProperties
<1>8. \A i \in 1..Len(s) : (i = 1 /\ s[i] = c) \/ (i # 1 /\ Aside(s[i]))
  BY <1>1, <1>5, <1>7
<1>9. Len(s) \in Nat /\ Len(toHelper) \in Nat  BY <1>7 DEF ToHelperOK
<1>10. CASE toHelper' = toHelper
  <2>1. Len(toHelper') = Len(toHelper) /\ Len(toHelper) + 1 .. Len(toHelper) = {}  BY <1>9, <1>10
  <2> QED  BY <1>10, <2>1 DEF PushedFreeze, ToHelperOK
<1>11. CASE /\ Len(toHelper') = Len(toHelper) + Len(s)
            /\ \A i \in 1..Len(toHelper) : toHelper'[i] = toHelper[i]
            /\ \A i \in Len(toHelper) + 1 .. Len(toHelper') : toHelper'[i] = s[i - Len(toHelper)]
  <2>1. ASSUME NEW i \in Len(toHelper) + 1 .. Len(toHelper')
        PROVE  \/ i = Len(toHelper) + 1 /\ toHelper'[i] = c
               \/ i # Len(toHelper) + 1 /\ Aside(toHelper'[i])
    <3>1. i - Len(toHelper) \in 1..Len(s) /\ (i = Len(toHelper) + 1 <=> i - Len(toHelper) = 1)  BY <1>9, <1>11
    <3> QED  BY <1>8, <1>11, <3>1
  <2>2. toHelper' \in Seq(Commands)  BY <1>3, <1>7, SendExtends
  <2> QED  BY <1>9, <1>11, <2>1, <2>2 DEF PushedFreeze
<1> QED  BY <1>3, <1>7, <1>10, <1>11, SendExtends

\* The empty frame is a frame, the empty detail a detail.
LEMMA NoFrameTyped == NoFrame \in Frames /\ NoDetail \in Details
  BY BoundAssumption DEF NoFrame, Frames, NoDetail, Details

\* Every record that is received is one of the protocol, and what it brings has its type.
LEMMA ReceiveTyped ==
  ASSUME FromHelperOK, NEW type, Receive(type)
  PROVE  /\ Head(fromHelper) \in Records /\ Head(fromHelper).type = type
         /\ FromHelperOK' \/ up' # up
<1>1. fromHelper \in Seq(Records) /\ fromHelper # <<>> /\ fromHelper' = Tail(fromHelper)
  BY DEF FromHelperOK, Receive
<1>2. fromHelper' \in Seq(Records) /\ Head(fromHelper) \in Records  BY <1>1
<1>3. up  BY <1>1 DEF FromHelperOK
<1> QED  BY <1>1, <1>2, <1>3 DEF FromHelperOK, Receive

\* What is taken from the pipe is a record.
LEMMA RecordTyped ==
  ASSUME NEW r \in Records
  PROVE  /\ r.type = "snapshot" => r.frame \in Frames
         /\ r.type = "scope-result" => r.frame \in Frames
         /\ r.type = "detail" => r.detail \in Details
         /\ r.type = "freeze-result" => r.frame \in Frames /\ r.frozen \in BOOLEAN /\ r.id \in 1..MaxRequests
  BY DEF Records

\* What the helper takes from its pipe is a command.
LEMMA CommandTyped ==
  ASSUME ToHelperOK, NEW op, Command(op)
  PROVE  /\ toHelper' \in Seq(Commands)
         /\ Head(toHelper) \in Commands /\ Head(toHelper).op = op
  BY DEF ToHelperOK, Command

\* The operands of a command have their types.
LEMMA OperandTyped ==
  ASSUME NEW c \in Commands
  PROVE  /\ c.op = "freeze" => c.state \in BOOLEAN /\ c.id \in 1..MaxRequests
         /\ c.op = "scope" => c.groups \in SUBSET Groups /\ c.frozen \in BOOLEAN
         /\ c.op = "inspect" => c.frozen \in BOOLEAN
         /\ c.op = "audio-action" => c.frozen \in BOOLEAN
  BY DEF Commands

\* The flag and the groups.
LEMMA NavStep == TypeOK /\ [Next]_vars => NavOK'
<1> SUFFICES ASSUME TypeOK, [Next]_vars PROVE NavOK'  OBVIOUS
<1> USE DEF TypeOK
<1>1. ASSUME NEW fz \in BOOLEAN, NEW gs \in SUBSET Groups, NEW before, NEW after, SetView(fz, gs, before, after)
      PROVE  NavOK'
  BY <1>1 DEF SetView, NavOK
<1>2. CASE UNCHANGED <<view, scopeKey>>  BY <1>2 DEF NavOK, view
<1>3. ASSUME NEW gs \in SUBSET Groups, SwitchInstrument(gs) \/ Regroup(gs) \/ Pick(gs) \/ Reopen(gs)
      PROVE  NavOK'
  BY <1>1, <1>3 DEF SwitchInstrument, Regroup, Pick, Reopen, NavOK
<1>4. CASE FreezeTimeout  BY <1>1, <1>4 DEF FreezeTimeout, NavOK
<1>5. CASE ReceiveFreeze
  <2>1. Head(fromHelper).frozen \in BOOLEAN  BY <1>5, ReceiveTyped, RecordTyped DEF ReceiveFreeze
  <2> QED  BY <1>1, <1>2, <1>5, <2>1 DEF ReceiveFreeze, NavOK
<1>6. ASSUME NEW sure \in BOOLEAN, ConfirmAction(sure) PROVE NavOK'  BY <1>2, <1>6 DEF ConfirmAction
<1>7. CASE Toggle \/ InspectMore \/ RequestAction  BY <1>2, <1>7 DEF Toggle, InspectMore, RequestAction
<1>8. CASE ReceiveSnapshot \/ ReceiveScope \/ ReceiveDetail \/ ReceiveError
  BY <1>2, <1>8 DEF ReceiveSnapshot, ReceiveScope, ReceiveDetail, ReceiveError
<1>9. CASE Sample \/ SampleFails  BY <1>2, <1>9 DEF Sample, SampleFails
<1>10. CASE DoFreeze \/ DoScope \/ DoInspect \/ DoAction \/ Discard
  BY <1>2, <1>10 DEF DoFreeze, DoScope, DoInspect, DoAction, Discard
<1>11. CASE RestartBackend \/ HelperExits \/ HelperStarts
  BY <1>2, <1>11 DEF RestartBackend, HelperExits, HelperStarts
<1>12. CASE UNCHANGED vars  BY <1>2, <1>12 DEF vars
<1> QED  BY <1>3, <1>4, <1>5, <1>6, <1>7, <1>8, <1>9, <1>10, <1>11, <1>12 DEF Next

\* The requests, their numbers and the wait.
LEMMA RequestStep == TypeOK /\ [Next]_vars => RequestOK'
<1> SUFFICES ASSUME TypeOK, [Next]_vars PROVE RequestOK'  OBVIOUS
<1> USE DEF TypeOK
<1>1. CASE UNCHANGED freeze  BY <1>1 DEF RequestOK, freeze
<1>2. CASE freezePending' = FALSE /\ requestId' = 0 /\ UNCHANGED freezeSequence
  <2>1. 0 \in 0..MaxRequests  BY BoundAssumption
  <2> QED  BY <1>2, <2>1 DEF RequestOK
<1>3. CASE freezePending' = FALSE /\ requestId' = 0 /\ CanFreeze /\ freezeSequence' = freezeSequence + 1
  <2>1. 0 \in 0..MaxRequests  BY BoundAssumption
  <2>2. freezeSequence + 1 \in 0..MaxRequests  BY <1>3, BoundAssumption DEF RequestOK, CanFreeze
  <2> QED  BY <1>3, <2>1, <2>2 DEF RequestOK
<1>4. CASE Toggle  BY <1>4, BoundAssumption DEF Toggle, RequestOK, CanFreeze
<1>5. ASSUME NEW gs \in SUBSET Groups, SwitchInstrument(gs) \/ Regroup(gs) \/ Pick(gs) \/ Reopen(gs)
      PROVE  RequestOK'
  BY <1>1, <1>2, <1>3, <1>5 DEF SwitchInstrument, Regroup, Pick, Reopen
<1>6. CASE FreezeTimeout  BY <1>3, <1>6 DEF FreezeTimeout
<1>7. CASE ReceiveFreeze  BY <1>1, <1>2, <1>7 DEF ReceiveFreeze, freeze
<1>8. CASE ReceiveError \/ RestartBackend \/ HelperExits
  BY <1>1, <1>2, <1>8 DEF ReceiveError, RestartBackend, HelperExits, NewError, SameError
<1>9. ASSUME NEW sure \in BOOLEAN, ConfirmAction(sure) PROVE RequestOK'  BY <1>1, <1>9 DEF ConfirmAction
<1>10. CASE InspectMore \/ RequestAction  BY <1>1, <1>10 DEF InspectMore, RequestAction
<1>11. CASE ReceiveSnapshot \/ ReceiveScope \/ ReceiveDetail
  BY <1>1, <1>11 DEF ReceiveSnapshot, ReceiveScope, ReceiveDetail
<1>12. CASE Sample \/ SampleFails \/ HelperStarts  BY <1>1, <1>12 DEF Sample, SampleFails, HelperStarts
<1>13. CASE DoFreeze \/ DoScope \/ DoInspect \/ DoAction \/ Discard
  BY <1>1, <1>13 DEF DoFreeze, DoScope, DoInspect, DoAction, Discard
<1>14. CASE UNCHANGED vars  BY <1>1, <1>14 DEF vars
<1> QED  BY <1>4, <1>5, <1>6, <1>7, <1>8, <1>9, <1>10, <1>11, <1>12, <1>13, <1>14 DEF Next

\* What is shown.
LEMMA ShownStep == TypeOK /\ [Next]_vars => ShownOK'
<1> SUFFICES ASSUME TypeOK, [Next]_vars PROVE ShownOK'  OBVIOUS
<1> USE DEF TypeOK
<1>1. CASE UNCHANGED shown  BY <1>1 DEF ShownOK, shown
<1>2. CASE /\ live' = live /\ display' \in {display, live}
           /\ detail' \in {NoDetail, detail} /\ showAll' \in {FALSE, showAll}
  BY <1>2, NoFrameTyped DEF ShownOK
<1>3. ASSUME NEW gs \in SUBSET Groups, SwitchInstrument(gs) \/ Regroup(gs) \/ Pick(gs) \/ Reopen(gs)
      PROVE  ShownOK'
  BY <1>2, <1>3 DEF SwitchInstrument, Regroup, Pick, Reopen
<1>4. CASE FreezeTimeout  BY <1>2, <1>4 DEF FreezeTimeout
<1>5. CASE InspectMore  BY <1>5 DEF InspectMore, ShownOK
<1>6. CASE ReceiveSnapshot
  <2>1. Head(fromHelper).frame \in Frames  BY <1>6, ReceiveTyped, RecordTyped DEF ReceiveSnapshot
  <2> QED  BY <1>6, <2>1 DEF ReceiveSnapshot, ShownOK
<1>7. CASE ReceiveFreeze
  <2>1. Head(fromHelper).frame \in Frames  BY <1>7, ReceiveTyped, RecordTyped DEF ReceiveFreeze
  <2> QED  BY <1>7, <2>1, NoFrameTyped DEF ReceiveFreeze, ShownOK
<1>8. CASE ReceiveScope
  <2>1. Head(fromHelper).frame \in Frames  BY <1>8, ReceiveTyped, RecordTyped DEF ReceiveScope
  <2> QED  BY <1>8, <2>1, NoFrameTyped DEF ReceiveScope, ShownOK
<1>9. CASE ReceiveDetail
  <2>1. Head(fromHelper).detail \in Details  BY <1>9, ReceiveTyped, RecordTyped DEF ReceiveDetail
  <2> QED  BY <1>9, <2>1 DEF ReceiveDetail, ShownOK
<1>10. ASSUME NEW sure \in BOOLEAN, ConfirmAction(sure) PROVE ShownOK'  BY <1>1, <1>10 DEF ConfirmAction
<1>11. CASE Toggle \/ RequestAction \/ ReceiveError  BY <1>1, <1>11 DEF Toggle, RequestAction, ReceiveError
<1>12. CASE Sample \/ SampleFails  BY <1>1, <1>12 DEF Sample, SampleFails
<1>13. CASE DoFreeze \/ DoScope \/ DoInspect \/ DoAction \/ Discard
  BY <1>1, <1>13 DEF DoFreeze, DoScope, DoInspect, DoAction, Discard
<1>14. CASE RestartBackend \/ HelperExits \/ HelperStarts
  BY <1>1, <1>14 DEF RestartBackend, HelperExits, HelperStarts
<1>15. CASE UNCHANGED vars  BY <1>1, <1>15 DEF vars
<1> QED  BY <1>3, <1>4, <1>5, <1>6, <1>7, <1>8, <1>9, <1>10, <1>11, <1>12, <1>13, <1>14, <1>15 DEF Next

\* The window and the process.
LEMMA HostStep == TypeOK /\ [Next]_vars => HostOK'
<1> SUFFICES ASSUME TypeOK, [Next]_vars PROVE HostOK'  OBVIOUS
<1> USE DEF TypeOK
<1>1. CASE pendingAction' \in {pendingAction, TRUE, FALSE} /\ UNCHANGED host  BY <1>1 DEF HostOK, host
<1>2. ASSUME NEW gs \in SUBSET Groups, SwitchInstrument(gs) \/ Regroup(gs) \/ Pick(gs) \/ Reopen(gs)
      PROVE  HostOK'
  BY <1>1, <1>2 DEF SwitchInstrument, Regroup, Pick, Reopen
<1>3. ASSUME NEW sure \in BOOLEAN, ConfirmAction(sure) PROVE HostOK'  BY <1>1, <1>3 DEF ConfirmAction
<1>4. CASE Toggle \/ InspectMore \/ FreezeTimeout \/ RequestAction
  BY <1>1, <1>4 DEF Toggle, InspectMore, FreezeTimeout, RequestAction
<1>5. CASE ReceiveSnapshot  BY <1>5 DEF ReceiveSnapshot, HostOK
<1>6. CASE ReceiveFreeze \/ ReceiveScope \/ ReceiveDetail
  BY <1>1, <1>6 DEF ReceiveFreeze, ReceiveScope, ReceiveDetail
<1>7. CASE ReceiveError  BY <1>7 DEF ReceiveError, NewError, SameError, HostOK
<1>8. CASE Sample \/ SampleFails  BY <1>1, <1>8 DEF Sample, SampleFails
<1>9. CASE DoFreeze \/ DoScope \/ DoInspect \/ DoAction \/ Discard
  BY <1>1, <1>9 DEF DoFreeze, DoScope, DoInspect, DoAction, Discard
<1>10. CASE RestartBackend \/ HelperExits \/ HelperStarts
  BY <1>10 DEF RestartBackend, HelperExits, HelperStarts, NewError, HostOK
<1>11. CASE UNCHANGED vars  BY <1>1, <1>11 DEF vars
<1> QED  BY <1>2, <1>3, <1>4, <1>5, <1>6, <1>7, <1>8, <1>9, <1>10, <1>11 DEF Next

\* A generation has the groups that the helper details.
LEMMA FrameTyped ==
  ASSUME NEW n \in 0..MaxGen, NEW gs \in SUBSET Groups
  PROVE  [gen |-> n, scope |-> gs] \in Frames
  BY DEF Frames

\* The bounds.
LEMMA HistStep == TypeOK /\ [Next]_vars => HistOK'
<1> SUFFICES ASSUME TypeOK, [Next]_vars PROVE HistOK'  OBVIOUS
<1> USE DEF TypeOK
<1>1. CASE gens' = gens /\ exits' = exits /\ faults' = faults /\ performed' \in BOOLEAN
  BY <1>1 DEF HistOK
<1>2. CASE UNCHANGED hist  BY <1>1, <1>2 DEF hist, HistOK
<1>3. CASE gens < MaxGen /\ gens' = gens + 1 /\ UNCHANGED <<faults, exits, performed>>
  <2>1. gens' \in 0..MaxGen  BY <1>3, BoundAssumption DEF HistOK
  <2> QED  BY <1>3, <2>1 DEF HistOK
<1>4. CASE Sample \/ SampleFails  BY <1>1, <1>3, <1>4 DEF Sample, SampleFails, HistOK
<1>5. CASE DoAction
  <2>1. performed' \in BOOLEAN  BY <1>5 DEF DoAction, HistOK
  <2> QED  BY <1>1, <1>5, <2>1 DEF DoAction
<1>6. CASE HelperExits
  <2>1. exits' \in 0..MaxExits  BY <1>6, BoundAssumption DEF HelperExits, HistOK
  <2> QED  BY <1>6, <2>1 DEF HelperExits, HistOK
<1>7. ASSUME NEW gs \in SUBSET Groups, SwitchInstrument(gs) \/ Regroup(gs) \/ Pick(gs) \/ Reopen(gs)
      PROVE  HistOK'
  BY <1>2, <1>7 DEF SwitchInstrument, Regroup, Pick, Reopen
<1>8. ASSUME NEW sure \in BOOLEAN, ConfirmAction(sure) PROVE HistOK'  BY <1>2, <1>8 DEF ConfirmAction
<1>9. CASE Toggle \/ InspectMore \/ FreezeTimeout \/ RequestAction
  BY <1>2, <1>9 DEF Toggle, InspectMore, FreezeTimeout, RequestAction
<1>10. CASE ReceiveSnapshot \/ ReceiveFreeze \/ ReceiveScope \/ ReceiveDetail \/ ReceiveError
  BY <1>2, <1>10 DEF ReceiveSnapshot, ReceiveFreeze, ReceiveScope, ReceiveDetail, ReceiveError
<1>11. CASE DoFreeze \/ DoScope \/ DoInspect \/ Discard
  BY <1>2, <1>11 DEF DoFreeze, DoScope, DoInspect, Discard
<1>12. CASE RestartBackend \/ HelperStarts  BY <1>2, <1>12 DEF RestartBackend, HelperStarts
<1>13. CASE UNCHANGED vars  BY <1>2, <1>13 DEF vars
<1> QED  BY <1>4, <1>5, <1>6, <1>7, <1>8, <1>9, <1>10, <1>11, <1>12, <1>13 DEF Next

\* The helper.
LEMMA HelperStep == TypeOK /\ [Next]_vars => HelperOK'
<1> SUFFICES ASSUME TypeOK, [Next]_vars PROVE HelperOK'  OBVIOUS
<1> USE DEF TypeOK
<1>1. CASE UNCHANGED helper  BY <1>1 DEF HelperOK, helper
<1>2. CASE UNCHANGED <<full, gens>> /\ UNCHANGED <<up, pinned, scope, scopeLost>>  BY <1>2 DEF HelperOK
<1>3. CASE /\ gens < MaxGen /\ gens' = gens + 1 /\ full' = [gen |-> gens', scope |-> scope]
           /\ UNCHANGED <<up, pinned, scope, scopeLost>>
  <2>1. gens + 1 \in 0..MaxGen  BY <1>3, BoundAssumption DEF HistOK
  <2>2. [gen |-> gens + 1, scope |-> scope] \in Frames  BY <2>1, FrameTyped DEF HelperOK
  <2> QED  BY <1>3, <2>2 DEF HelperOK
<1>4. CASE Sample  BY <1>3, <1>4 DEF Sample
<1>5. CASE SampleFails  BY <1>2, <1>3, <1>5 DEF SampleFails
<1>6. CASE DoFreeze  BY <1>6, NoFrameTyped DEF DoFreeze, HelperOK
<1>7. CASE DoScope
  <2>1. Head(toHelper).groups \in SUBSET Groups  BY <1>7, CommandTyped, OperandTyped DEF DoScope
  <2> QED  BY <1>7, <2>1 DEF DoScope, HelperOK
<1>8. CASE DoInspect \/ DoAction  BY <1>1, <1>8 DEF DoInspect, DoAction
<1>9. CASE HelperExits \/ HelperStarts
  BY <1>9, NoFrameTyped DEF HelperExits, HelperStarts, FreshHelper, HelperOK
<1>10. ASSUME NEW gs \in SUBSET Groups, SwitchInstrument(gs) \/ Regroup(gs) \/ Pick(gs) \/ Reopen(gs)
      PROVE  HelperOK'
  BY <1>1, <1>10 DEF SwitchInstrument, Regroup, Pick, Reopen
<1>11. ASSUME NEW sure \in BOOLEAN, ConfirmAction(sure) PROVE HelperOK'  BY <1>1, <1>11 DEF ConfirmAction
<1>12. CASE Toggle \/ InspectMore \/ FreezeTimeout \/ RequestAction
  BY <1>1, <1>12 DEF Toggle, InspectMore, FreezeTimeout, RequestAction
<1>13. CASE ReceiveSnapshot \/ ReceiveFreeze \/ ReceiveScope \/ ReceiveDetail \/ ReceiveError
  BY <1>1, <1>13 DEF ReceiveSnapshot, ReceiveFreeze, ReceiveScope, ReceiveDetail, ReceiveError
<1>14. CASE RestartBackend \/ UNCHANGED vars  BY <1>1, <1>14 DEF RestartBackend, vars
<1>15. CASE Discard
  <2>1. scopeLost' \in BOOLEAN  BY <1>15 DEF Discard, HelperOK
  <2> QED  BY <1>15, <2>1 DEF Discard, HelperOK
<1> QED  BY <1>4, <1>5, <1>6, <1>7, <1>8, <1>9, <1>10, <1>11, <1>12, <1>13, <1>14, <1>15 DEF Next

-----------------------------------------------------------------------------
\* What the handlers of the view put into the pipe.
LEMMA UserPushes ==
  ASSUME TypeOK
  PROVE  /\ Toggle => PushedFreeze(FreezeCommand(~frozen))
         /\ FreezeTimeout => PushedFreeze(FreezeCommand(FALSE))
         /\ InspectMore => Pushed(frozen)
         /\ RequestAction => Pushed(frozen)
<1> USE DEF TypeOK
<1>1. ASSUME Toggle PROVE PushedFreeze(FreezeCommand(~frozen))
  <2> DEFINE c == FreezeCommand(~frozen)
  <2> SUFFICES PushedFreeze(c)  OBVIOUS
  <2>1. ASSUME NEW state \in BOOLEAN PROVE FreezeCommand(state) \in Commands
    BY <1>1, FreezeTyped DEF Toggle
  <2>2. c \in Commands
    <3>1. CASE frozen = TRUE
      <4>1. ~frozen = FALSE  BY <3>1
      <4> QED  BY <2>1, <4>1
    <3>2. CASE frozen = FALSE
      <4>1. ~frozen = TRUE  BY <3>2
      <4> QED  BY <2>1, <4>1
    <3> QED  BY <3>1, <3>2 DEF NavOK
  <2>3. Send(<<c>>)  BY <1>1 DEF Toggle
  <2> HIDE DEF c
  <2>4. toHelper' \in Seq(Commands)
    <3>1. <<c>> \in Seq(Commands)  BY <2>2
    <3> QED  BY <2>3, <3>1, SendExtends
  <2> QED  BY <2>2, <2>3, <2>4, SendOne DEF PushedFreeze
<1>2. ASSUME FreezeTimeout PROVE PushedFreeze(FreezeCommand(FALSE))
  BY <1>2, ReleasePushed DEF FreezeTimeout, NavOK
<1>3. ASSUME InspectMore PROVE Pushed(frozen)
  <2> DEFINE c == InspectCommand(frozen)
  <2>1. c \in Commands /\ Quiet(c, frozen)  BY InspectTyped DEF NavOK, Plain, Quiet
  <2>2. Send(<<c>>)  BY <1>3 DEF InspectMore
  <2> HIDE DEF c
  <2> QED  BY <2>1, <2>2, OnePushed
<1>4. ASSUME RequestAction PROVE Pushed(frozen)  BY <1>4, QuietPushed DEF RequestAction
<1> QED  BY <1>1, <1>2, <1>3, <1>4

\* Choosing an instrument pushes.
LEMMA InstrumentPushes ==
  ASSUME TypeOK, NEW gs \in SUBSET Groups
  PROVE  /\ SwitchInstrument(gs) /\ (frozen \/ freezePending) => PushedFreeze(FreezeCommand(FALSE))
         /\ SwitchInstrument(gs) /\ ~(frozen \/ freezePending) => Pushed(FALSE)
         /\ Regroup(gs) \/ Pick(gs) => Pushed(frozen)
         /\ Reopen(gs) => Pushed(FALSE)
<1> USE DEF TypeOK
<1>1. ASSUME NEW fz \in BOOLEAN, SetView(fz, gs, <<>>, <<>>) PROVE Pushed(fz)
  <2>1. <<>> \in Seq(Commands) /\ \A i \in 1..Len(<<>>) : FALSE  OBVIOUS
  <2> QED  BY <1>1, <2>1, ViewPushed
<1>2. ASSUME Pick(gs) PROVE Pushed(frozen)
  <2> DEFINE c == InspectCommand(frozen)
  <2>1. c \in Commands /\ Plain(c, frozen)  BY InspectTyped DEF NavOK
  <2>2. SetView(frozen, gs, <<>>, <<c>>) /\ frozen \in BOOLEAN  BY <1>2 DEF Pick, NavOK
  <2> HIDE DEF c
  <2>3. <<c>> \in Seq(Commands) /\ \A i \in 1..Len(<<c>>) : <<c>>[i] = c  BY <2>1
  <2>4. \A i \in 1..Len(<<c>>) : Plain(<<c>>[i], frozen)  BY <2>1, <2>3
  <2> QED  BY <2>2, <2>3, <2>4, ViewPushed
<1>3. ASSUME Regroup(gs) PROVE Pushed(frozen)  BY <1>1, <1>3 DEF Regroup, NavOK
<1>4. ASSUME Reopen(gs) PROVE Pushed(FALSE)  BY <1>1, <1>4 DEF Reopen
<1>5. ASSUME SwitchInstrument(gs), frozen \/ freezePending PROVE PushedFreeze(FreezeCommand(FALSE))
  BY <1>5, ReleasePushed DEF SwitchInstrument
<1>6. ASSUME SwitchInstrument(gs), ~(frozen \/ freezePending) PROVE Pushed(FALSE)
  BY <1>1, <1>6 DEF SwitchInstrument
<1> QED  BY <1>2, <1>3, <1>4, <1>5, <1>6

\* The other steps push or take a command away.
LEMMA OtherPushes ==
  ASSUME TypeOK
  PROVE  /\ \A sure \in BOOLEAN : ConfirmAction(sure) => Pushed(frozen)
         /\ ReceiveSnapshot => Pushed(frozen)
         /\ ReceiveFreeze => Pushed(frozen')
         /\ ReceiveScope \/ ReceiveDetail \/ ReceiveError \/ RestartBackend => Pushed(frozen)
<1> USE DEF TypeOK
<1>1. ASSUME NEW sure \in BOOLEAN, ConfirmAction(sure) PROVE Pushed(frozen)
  <2> DEFINE c == [op |-> "audio-action", frozen |-> frozen]
  <2>1. c \in Commands  BY DEF NavOK, Commands
  <2>2. Quiet(c, frozen)  BY <1>1 DEF ConfirmAction, Quiet, IsFreeze, Confirmed, ForFrozen
  <2>3. Send(<<c>>) \/ UNCHANGED toHelper  BY <1>1 DEF ConfirmAction
  <2> HIDE DEF c
  <2> QED  BY <2>1, <2>2, <2>3, OnePushed
<1>2. ASSUME ReceiveSnapshot PROVE Pushed(frozen)
  <2> DEFINE c == InspectCommand(FALSE)
  <2>1. c \in Commands /\ Quiet(c, frozen)  BY InspectTyped DEF Plain, Quiet
  <2>2. Send(<<c>>) \/ UNCHANGED toHelper  BY <1>2 DEF ReceiveSnapshot
  <2> HIDE DEF c
  <2> QED  BY <2>1, <2>2, OnePushed
<1>3. ASSUME ReceiveFreeze PROVE Pushed(frozen')
  <2>1. Head(fromHelper).frozen \in BOOLEAN  BY <1>3, ReceiveTyped, RecordTyped DEF ReceiveFreeze
  <2>2. CASE SetView(Head(fromHelper).frozen, groups, <<>>, <<>>)
    <3>1. <<>> \in Seq(Commands) /\ \A i \in 1..Len(<<>>) : FALSE  OBVIOUS
    <3>2. Pushed(Head(fromHelper).frozen)  BY <2>1, <2>2, <3>1, ViewPushed DEF NavOK
    <3>3. frozen' = Head(fromHelper).frozen  BY <2>2 DEF SetView
    <3> QED  BY <3>2, <3>3
  <2>3. CASE UNCHANGED toHelper  BY <2>3, QuietPushed
  <2> QED  BY <1>3, <2>2, <2>3 DEF ReceiveFreeze
<1>4. ASSUME ReceiveScope \/ ReceiveDetail \/ ReceiveError \/ RestartBackend PROVE Pushed(frozen)
  BY <1>4, QuietPushed DEF ReceiveScope, ReceiveDetail, ReceiveError, RestartBackend
<1> QED  BY <1>1, <1>2, <1>3, <1>4

\* A step that pushes keeps the type of the pipe.
LEMMA PushesTyped == ASSUME NEW x, Pushed(x) \/ PushedFreeze(x) PROVE ToHelperOK'
  BY DEF Pushed, PushedFreeze, ToHelperOK

\* The pipe to the helper.
LEMMA ToHelperStep == TypeOK /\ [Next]_vars => ToHelperOK'
<1> SUFFICES ASSUME TypeOK, [Next]_vars PROVE ToHelperOK'  OBVIOUS
<1>1. CASE UNCHANGED toHelper  BY <1>1 DEF TypeOK, ToHelperOK
<1>2. ASSUME NEW gs \in SUBSET Groups, SwitchInstrument(gs) \/ Regroup(gs) \/ Pick(gs) \/ Reopen(gs)
      PROVE  ToHelperOK'
  BY <1>2, InstrumentPushes, PushesTyped
<1>3. ASSUME NEW sure \in BOOLEAN, ConfirmAction(sure) PROVE ToHelperOK'
  BY <1>3, OtherPushes, PushesTyped
<1>4. CASE Toggle \/ InspectMore \/ FreezeTimeout \/ RequestAction  BY <1>4, UserPushes, PushesTyped
<1>5. CASE ReceiveSnapshot \/ ReceiveScope \/ ReceiveDetail \/ ReceiveError \/ RestartBackend
  BY <1>5, OtherPushes, PushesTyped
<1>6. CASE ReceiveFreeze  BY <1>6, OtherPushes, PushesTyped
<1>7. CASE Sample \/ SampleFails  BY <1>1, <1>7 DEF Sample, SampleFails
<1>8. CASE DoFreeze \/ DoScope \/ DoInspect \/ DoAction
  BY <1>8, CommandTyped DEF DoFreeze, DoScope, DoInspect, DoAction, TypeOK, ToHelperOK
<1>9. CASE HelperExits  BY <1>9 DEF HelperExits, ToHelperOK
<1>10. CASE HelperStarts
  <2> DEFINE c == [op |-> "scope", groups |-> scopeKey[1], frozen |-> FALSE]
  <2>1. c \in Commands  BY DEF TypeOK, NavOK, Commands
  <2>2. toHelper' = <<c>>  BY <1>10 DEF HelperStarts
  <2> HIDE DEF c
  <2> QED  BY <2>1, <2>2 DEF ToHelperOK
<1>11. CASE UNCHANGED vars  BY <1>1, <1>11 DEF vars
<1>12. CASE Discard  BY <1>12 DEF Discard, TypeOK, ToHelperOK
<1> QED  BY <1>2, <1>3, <1>4, <1>5, <1>6, <1>7, <1>8, <1>9, <1>10, <1>11, <1>12 DEF Next

\* What the helper answers.
LEMMA AnswerTyped ==
  ASSUME FromHelperOK, NEW r \in Records, Answer(r), up
  PROVE  FromHelperOK' \/ up' # up
<1>1. fromHelper' \in Seq(Records)  BY AppendProperties DEF FromHelperOK, Answer
<1> QED  BY <1>1 DEF FromHelperOK

\* The records that the helper writes are records.
LEMMA RecordsMade ==
  /\ [type |-> "error"] \in Records
  /\ \A f \in Frames : [type |-> "snapshot", frame |-> f] \in Records
  /\ \A f \in Frames : [type |-> "scope-result", frame |-> f] \in Records
  /\ \A d \in Details : [type |-> "detail", detail |-> d] \in Records
  /\ \A n \in 1..MaxRequests, fz \in BOOLEAN, f \in Frames :
       [type |-> "freeze-result", id |-> n, frozen |-> fz, frame |-> f] \in Records
  BY DEF Records

\* Each answer of the helper is a record.
LEMMA AnswersTyped ==
  ASSUME TypeOK
  PROVE  /\ \A gs \in SUBSET Groups : Scoped(gs) \in Frames
         /\ \A fz \in BOOLEAN : Inspected(fz) \in Details
<1>1. full.gen \in 0..MaxGen /\ pinned.gen \in 0..MaxGen  BY DEF TypeOK, HelperOK, Frames
<1>2. \A gs \in SUBSET Groups : Scoped(gs) \in Frames  BY <1>1, FrameTyped DEF Scoped
<1>3. /\ [gen |-> full.gen, pinned |-> FALSE] \in Details
      /\ [gen |-> pinned.gen, pinned |-> TRUE] \in Details
  BY <1>1 DEF Details
<1>4. \A fz \in BOOLEAN : Inspected(fz) \in Details  BY <1>3, NoFrameTyped DEF Inspected
<1> QED  BY <1>2, <1>4

\* The pipe from the helper.
LEMMA FromHelperStep == TypeOK /\ [Next]_vars => FromHelperOK'
<1> SUFFICES ASSUME TypeOK, [Next]_vars PROVE FromHelperOK'  OBVIOUS
<1> USE DEF TypeOK
<1>1. CASE UNCHANGED <<fromHelper, up>>  BY <1>1 DEF FromHelperOK
<1>2. HelperOK'  BY HelperStep
<1>3. CASE Sample
  <2>1. Answer([type |-> "snapshot", frame |-> full']) /\ up /\ up' = up  BY <1>3 DEF Sample
  <2>2. [type |-> "snapshot", frame |-> full'] \in Records  BY <1>2, RecordsMade DEF HelperOK
  <2> QED  BY <2>1, <2>2, AnswerTyped
<1>4. CASE SampleFails
  <2>1. Answer([type |-> "error"]) /\ up /\ up' = up  BY <1>4 DEF SampleFails
  <2> QED  BY <2>1, RecordsMade, AnswerTyped
<1>5. CASE DoFreeze
  <2> DEFINE c == Head(toHelper)
             r == [type |-> "freeze-result", id |-> c.id, frozen |-> c.state, frame |-> pinned']
  <2>1. Answer(r) /\ up /\ up' = up  BY <1>5 DEF DoFreeze, Command
  <2>2. c.id \in 1..MaxRequests /\ c.state \in BOOLEAN  BY <1>5, CommandTyped, OperandTyped DEF DoFreeze
  <2>3. r \in Records  BY <1>2, <2>2, RecordsMade DEF HelperOK
  <2> HIDE DEF r
  <2> QED  BY <2>1, <2>3, AnswerTyped
<1>6. CASE DoScope
  <2> DEFINE r == [type |-> "scope-result", frame |-> Scoped(Head(toHelper).groups)]
  <2>1. Answer(r) \/ UNCHANGED fromHelper  BY <1>6 DEF DoScope
  <2>2. up /\ up' = up  BY <1>6 DEF DoScope, Command
  <2>3. Head(toHelper).groups \in SUBSET Groups  BY <1>6, CommandTyped, OperandTyped DEF DoScope
  <2>4. r \in Records  BY <2>3, AnswersTyped, RecordsMade
  <2> HIDE DEF r
  <2> QED  BY <1>1, <2>1, <2>2, <2>4, AnswerTyped
<1>7. CASE DoInspect
  <2> DEFINE r == [type |-> "detail", detail |-> Inspected(Head(toHelper).frozen)]
  <2>1. Answer(r) /\ up /\ up' = up  BY <1>7 DEF DoInspect, Command, helper
  <2>2. Head(toHelper).frozen \in BOOLEAN  BY <1>7, CommandTyped, OperandTyped DEF DoInspect
  <2>3. r \in Records  BY <2>2, AnswersTyped, RecordsMade
  <2> HIDE DEF r
  <2> QED  BY <2>1, <2>3, AnswerTyped
<1>8. CASE DoAction \/ Discard
  <2>1. Answer([type |-> "error"]) \/ UNCHANGED fromHelper  BY <1>8 DEF DoAction, Discard
  <2>2. up /\ up' = up  BY <1>8 DEF DoAction, Discard, Command, helper
  <2> QED  BY <1>1, <2>1, <2>2, RecordsMade, AnswerTyped
<1>9. CASE HelperExits  BY <1>9 DEF HelperExits, FromHelperOK
<1>10. CASE HelperStarts  BY <1>10 DEF HelperStarts, FreshHelper, FromHelperOK
<1>11. ASSUME NEW gs \in SUBSET Groups, SwitchInstrument(gs) \/ Regroup(gs) \/ Pick(gs) \/ Reopen(gs)
       PROVE  FromHelperOK'
  BY <1>1, <1>11 DEF SwitchInstrument, Regroup, Pick, Reopen, helper
<1>12. ASSUME NEW sure \in BOOLEAN, ConfirmAction(sure) PROVE FromHelperOK'
  BY <1>1, <1>12 DEF ConfirmAction, helper
<1>13. CASE Toggle \/ InspectMore \/ FreezeTimeout \/ RequestAction
  BY <1>1, <1>13 DEF Toggle, InspectMore, FreezeTimeout, RequestAction, helper
<1>14. CASE ReceiveSnapshot  BY <1>14, ReceiveTyped DEF ReceiveSnapshot, helper
<1>15. CASE ReceiveFreeze  BY <1>15, ReceiveTyped DEF ReceiveFreeze, helper
<1>16. CASE ReceiveScope  BY <1>16, ReceiveTyped DEF ReceiveScope, helper
<1>17. CASE ReceiveDetail  BY <1>17, ReceiveTyped DEF ReceiveDetail, helper
<1>18. CASE ReceiveError  BY <1>18, ReceiveTyped DEF ReceiveError, helper
<1>19. CASE RestartBackend \/ UNCHANGED vars  BY <1>1, <1>19 DEF RestartBackend, vars, helper
<1> QED  BY <1>3, <1>4, <1>5, <1>6, <1>7, <1>8, <1>9, <1>10, <1>11, <1>12, <1>13, <1>14, <1>15, <1>16,
            <1>17, <1>18, <1>19 DEF Next

\* The initial states have their types.
LEMMA TypeInit == Init => TypeOK
<1> SUFFICES ASSUME Init PROVE TypeOK  OBVIOUS
<1> USE DEF Init
<1>1. NavOK /\ HostOK  BY DEF NavOK, HostOK
<1>2. RequestOK
  <2>1. 0 \in 0..MaxRequests  BY BoundAssumption
  <2> QED  BY <2>1 DEF RequestOK
<1>3. ShownOK /\ HelperOK  BY NoFrameTyped DEF ShownOK, HelperOK
<1>4. ToHelperOK /\ FromHelperOK  BY DEF ToHelperOK, FromHelperOK
<1>5. HistOK
  <2>1. 0 \in 0..MaxGen /\ 0 \in 0..MaxExits  BY BoundAssumption
  <2> QED  BY <2>1 DEF HistOK
<1> QED  BY <1>1, <1>2, <1>3, <1>4, <1>5 DEF TypeOK

\* Every step keeps the types.
LEMMA TypeStep == TypeOK /\ [Next]_vars => TypeOK'
<1> SUFFICES ASSUME TypeOK, [Next]_vars PROVE TypeOK'  OBVIOUS
<1>1. NavOK' /\ RequestOK' /\ ShownOK' /\ HostOK'  BY NavStep, RequestStep, ShownStep, HostStep
<1>2. ToHelperOK' /\ FromHelperOK' /\ HelperOK' /\ HistOK'
  BY ToHelperStep, FromHelperStep, HelperStep, HistStep
<1> QED  BY <1>1, <1>2 DEF TypeOK

\* Type correctness, for any bounds and groups.
THEOREM TypeCorrect == Spec => []TypeOK
  BY TypeInit, TypeStep, PTL DEF Spec

IsResult(r) == r.type = "freeze-result"

\* What only the pinned generation answers.
FromPinned(r) == r.type = "scope-result" \/ (r.type = "detail" /\ r.detail.pinned)

GenOf(r) == IF r.type = "scope-result" THEN r.frame.gen ELSE r.detail.gen

\* Freezes are numbered in the order in which they pass.
Numbered ==
  /\ \A i \in 1..Len(toHelper) : IsFreeze(toHelper[i]) => toHelper[i].id <= freezeSequence
  /\ \A i \in 1..Len(fromHelper) : IsResult(fromHelper[i]) => fromHelper[i].id <= freezeSequence
  /\ \A i, j \in 1..Len(toHelper) :
       i < j /\ IsFreeze(toHelper[i]) /\ IsFreeze(toHelper[j]) => toHelper[i].id < toHelper[j].id
  /\ \A i, j \in 1..Len(fromHelper) :
       i < j /\ IsResult(fromHelper[i]) /\ IsResult(fromHelper[j]) => fromHelper[i].id < fromHelper[j].id
  /\ \A i \in 1..Len(fromHelper), j \in 1..Len(toHelper) :
       IsResult(fromHelper[i]) /\ IsFreeze(toHelper[j]) => fromHelper[i].id < toHelper[j].id

\* The view waits for the last one, so nothing follows the answer that it takes.
AwaitsLast == freezePending => requestId = freezeSequence

\* A frozen view only ever sends that it is live again.
OnlyThaws ==
  frozen =>
    /\ \A i \in 1..Len(toHelper) : IsFreeze(toHelper[i]) => ~toHelper[i].state
    /\ \A i \in 1..Len(fromHelper) : IsResult(fromHelper[i]) => ~fromHelper[i].frozen

\* The last answer is about the generation that is pinned.
AnswerIsPinned ==
  \A i \in 1..Len(fromHelper) :
    IsResult(fromHelper[i]) /\ fromHelper[i].frozen /\ fromHelper[i].id = freezeSequence
      => pinned = fromHelper[i].frame

PinnedIsShown == frozen /\ pinned # NoFrame => pinned.gen = display.gen

\* Whatever the pinned generation answers is about the generation a frozen view shows.
AnswersAreShown ==
  frozen => \A i \in 1..Len(fromHelper) : FromPinned(fromHelper[i]) => GenOf(fromHelper[i]) = display.gen

\* What an earlier frozen view asked, and its answers, pass before the freeze that a live view waits for.
AskedBefore ==
  ~frozen /\ freezePending =>
    /\ \A i, j \in 1..Len(toHelper) :
         i < j /\ IsFreeze(toHelper[i]) /\ toHelper[i].id = requestId => ~ForFrozen(toHelper[j])
    /\ \A i \in 1..Len(fromHelper) :
         IsResult(fromHelper[i]) /\ fromHelper[i].id = requestId =>
           /\ \A j \in 1..Len(fromHelper) : i < j => ~FromPinned(fromHelper[j])
           /\ \A j \in 1..Len(toHelper) : ~ForFrozen(toHelper[j])

FreezeInv ==
  /\ TypeOK
  /\ Numbered /\ AwaitsLast /\ OnlyThaws /\ AnswerIsPinned /\ PinnedIsShown
  /\ AnswersAreShown /\ AskedBefore /\ FrozenAnswerExact

-----------------------------------------------------------------------------
(* What a step does to the view and the pipes, in the terms of the invariant. *)

\* At most one answer is taken from the pipe, and none is added.
Received == fromHelper' = fromHelper \/ (fromHelper # <<>> /\ fromHelper' = Tail(fromHelper))

\* The view waits for no new answer.
NoneAsked == (freezePending' = freezePending /\ requestId' = requestId) \/ ~freezePending'

\* A frozen view stays frozen and a live one live.
Stays ==
  /\ frozen' = frozen /\ UNCHANGED <<freezeSequence, pinned>>
  /\ NoneAsked
  /\ Pushed(frozen) /\ Received
  /\ frozen => display'.gen = display.gen /\ (detail'.pinned => detail'.gen = display.gen)

\* The view is live from now on, without a word to the helper.
Thaws ==
  /\ ~frozen' /\ ~freezePending' /\ UNCHANGED <<freezeSequence, pinned>>
  /\ Pushed(FALSE) /\ Received

\* The view is live from now on, and tells the helper.
Releases ==
  /\ ~frozen' /\ ~freezePending' /\ freezeSequence' = freezeSequence + 1
  /\ PushedFreeze(FreezeCommand(FALSE))
  /\ UNCHANGED <<fromHelper, pinned>>

\* The view asks to be frozen, or to be live.
Asks ==
  /\ Showing /\ ~pendingAction'
  /\ freezePending' /\ freezeSequence' = freezeSequence + 1 /\ requestId' = freezeSequence'
  /\ PushedFreeze(FreezeCommand(~frozen))
  /\ UNCHANGED <<frozen, display, detail, fromHelper, pinned>>

\* The view becomes frozen with the answer that it awaited.
Freezes ==
  /\ fromHelper # <<>> /\ IsResult(Head(fromHelper)) /\ Head(fromHelper).frozen
  /\ freezePending /\ Head(fromHelper).id = requestId
  /\ frozen' /\ ~freezePending' /\ UNCHANGED <<freezeSequence, pinned>>
  /\ display' = Head(fromHelper).frame /\ ~detail'.pinned
  /\ fromHelper' = Tail(fromHelper)
  /\ Pushed(TRUE)

\* The helper reads a command or not, a freeze only to discard it, and answers or not.
Answers ==
  /\ UNCHANGED <<frozen, freeze, display, detail, pinned>>
  /\ toHelper' = toHelper \/ (toHelper # <<>> /\ toHelper' = Tail(toHelper))
  /\ \/ fromHelper' = fromHelper
     \/ \E r \in Records :
          /\ fromHelper' = Append(fromHelper, r) /\ ~IsResult(r)
          /\ r.type = "snapshot" => full' # NoFrame
          /\ FromPinned(r) => /\ pinned # NoFrame /\ GenOf(r) = pinned.gen
                              /\ toHelper # <<>> /\ ForFrozen(Head(toHelper))

\* The pipes and the pinned generation are gone with the helper.
Loses ==
  /\ UNCHANGED <<frozen, display, detail, freezeSequence>> /\ NoneAsked
  /\ pinned' = NoFrame /\ fromHelper' = <<>>
  /\ \A i \in 1..Len(toHelper') : Aside(toHelper'[i])
  /\ exits' # 0 \/ ~up

\* Every step is one of these.
LEMMA StepKinds ==
  FreezeInv /\ [Next]_vars
    => Stays \/ Thaws \/ Releases \/ Asks \/ Freezes \/ Answers \/ DoFreeze \/ Loses
<1> SUFFICES ASSUME FreezeInv, [Next]_vars
             PROVE  Stays \/ Thaws \/ Releases \/ Asks \/ Freezes \/ Answers \/ DoFreeze \/ Loses
  OBVIOUS
<1>1. TypeOK /\ FrozenAnswerExact /\ AnswersAreShown  BY DEF FreezeInv
<1>2. ASSUME NEW gs \in SUBSET Groups, Regroup(gs) \/ Pick(gs) PROVE Stays
  <2>1. Pushed(frozen)  BY <1>1, <1>2, InstrumentPushes
  <2>2. /\ frozen' = frozen /\ display' = display /\ detail' \in {NoDetail, detail}
        /\ UNCHANGED freeze /\ UNCHANGED <<fromHelper, helper>>
    BY <1>2 DEF Regroup, Pick, SetView
  <2>3. ~NoDetail.pinned  BY DEF NoDetail
  <2> QED  BY <1>1, <2>1, <2>2, <2>3 DEF Stays, NoneAsked, Received, freeze, helper, FrozenAnswerExact
<1>3. ASSUME NEW gs \in SUBSET Groups, Reopen(gs) PROVE Thaws
  <2>1. Pushed(FALSE)  BY <1>1, <1>3, InstrumentPushes
  <2> QED  BY <1>3, <2>1 DEF Reopen, SetView, Thaws, Received, helper
<1>4. ASSUME NEW gs \in SUBSET Groups, SwitchInstrument(gs) PROVE Releases \/ Thaws
  <2>1. CASE frozen \/ freezePending
    <3>1. PushedFreeze(FreezeCommand(FALSE))  BY <1>1, <1>4, <2>1, InstrumentPushes
    <3>2. ~frozen' /\ ~freezePending' /\ freezeSequence' = freezeSequence + 1 /\ UNCHANGED <<fromHelper, pinned>>
      BY <1>4, <2>1 DEF SwitchInstrument, SetView, helper
    <3> QED  BY <3>1, <3>2 DEF Releases
  <2>2. CASE ~(frozen \/ freezePending)
    <3>1. Pushed(FALSE)  BY <1>1, <1>4, <2>2, InstrumentPushes
    <3>2. ~frozen' /\ ~freezePending' /\ UNCHANGED <<freezeSequence, fromHelper, pinned>>
      BY <1>4, <2>2 DEF SwitchInstrument, SetView, helper, freeze
    <3> QED  BY <3>1, <3>2 DEF Thaws, Received
  <2> QED  BY <2>1, <2>2
<1>5. ASSUME NEW sure \in BOOLEAN, ConfirmAction(sure) PROVE Stays
  <2>1. Pushed(frozen)  BY <1>1, <1>5, OtherPushes
  <2> QED  BY <1>1, <1>5, <2>1
        DEF ConfirmAction, Stays, NoneAsked, Received, view, freeze, shown, helper, FrozenAnswerExact
<1>6. CASE InspectMore \/ RequestAction
  <2>1. Pushed(frozen)  BY <1>1, <1>6, UserPushes
  <2>2. /\ frozen' = frozen /\ display' = display /\ detail' = detail
        /\ UNCHANGED freeze /\ UNCHANGED <<fromHelper, helper>>
    BY <1>6 DEF InspectMore, RequestAction, view, shown
  <2> QED  BY <1>1, <2>1, <2>2 DEF Stays, NoneAsked, Received, freeze, helper, FrozenAnswerExact
<1>7. CASE Toggle
  <2>1. PushedFreeze(FreezeCommand(~frozen))  BY <1>1, <1>7, UserPushes
  <2>2. /\ Showing /\ ~pendingAction'
        /\ freezePending' /\ freezeSequence' = freezeSequence + 1 /\ requestId' = freezeSequence'
        /\ UNCHANGED <<frozen, display, detail, fromHelper, pinned>>
    BY <1>7 DEF Toggle, view, shown, helper
  <2> QED  BY <2>1, <2>2 DEF Asks
<1>8. CASE FreezeTimeout
  <2>1. PushedFreeze(FreezeCommand(FALSE))  BY <1>1, <1>8, UserPushes
  <2>2. ~frozen' /\ ~freezePending' /\ freezeSequence' = freezeSequence + 1 /\ UNCHANGED <<fromHelper, pinned>>
    BY <1>8 DEF FreezeTimeout, SetView, helper
  <2> QED  BY <2>1, <2>2 DEF Releases
<1>9. CASE ReceiveSnapshot
  <2>1. Pushed(frozen)  BY <1>1, <1>9, OtherPushes
  <2>2. /\ frozen' = frozen /\ detail' = detail /\ (frozen => display' = display)
        /\ UNCHANGED freeze /\ UNCHANGED helper /\ Received
    BY <1>9 DEF ReceiveSnapshot, Receive, Received, view
  <2> QED  BY <1>1, <2>1, <2>2 DEF Stays, NoneAsked, freeze, helper, FrozenAnswerExact
<1>10. CASE ReceiveFreeze
  <2> DEFINE answer == Head(fromHelper)
  <2>1. Pushed(frozen')  BY <1>1, <1>10, OtherPushes
  <2>2. fromHelper # <<>> /\ IsResult(answer) /\ fromHelper' = Tail(fromHelper)
        /\ UNCHANGED <<freezeSequence, pinned>>
    BY <1>10 DEF ReceiveFreeze, Receive, IsResult, helper
  <2>3. answer.frozen \in BOOLEAN /\ frozen \in BOOLEAN
    BY <1>1, <1>10, ReceiveTyped, RecordTyped DEF ReceiveFreeze, TypeOK, NavOK
  <2>4. CASE ~Awaited(answer)
    <3>1. frozen' = frozen /\ NoneAsked /\ display' = display /\ detail' = detail
      BY <1>10, <2>4 DEF ReceiveFreeze, NoneAsked, view
    <3> QED  BY <1>1, <2>1, <2>2, <3>1 DEF Stays, Received, FrozenAnswerExact
  <2>5. CASE Awaited(answer)
    <3>1. /\ frozen' = answer.frozen /\ ~freezePending' /\ detail' = NoDetail
          /\ display' = IF answer.frozen THEN answer.frame ELSE live
      BY <1>10, <2>5 DEF ReceiveFreeze, SetView
    <3>2. CASE answer.frozen = TRUE
      <4>1. ~detail'.pinned  BY <3>1 DEF NoDetail
      <4>2. Pushed(TRUE)  BY <2>1, <3>1, <3>2
      <4> QED  BY <2>2, <2>5, <3>1, <3>2, <4>1, <4>2 DEF Freezes, Awaited
    <3>3. CASE answer.frozen = FALSE
      <4>1. Pushed(FALSE)  BY <2>1, <3>1, <3>3
      <4> QED  BY <2>2, <3>1, <3>3, <4>1 DEF Thaws, Received
    <3> QED  BY <2>3, <3>2, <3>3
  <2> QED  BY <2>4, <2>5
<1>11. CASE ReceiveScope \/ ReceiveDetail
  <2>1. Pushed(frozen)  BY <1>1, <1>11, OtherPushes
  <2>2. /\ frozen' = frozen /\ UNCHANGED freeze /\ UNCHANGED helper /\ Received
    BY <1>11 DEF ReceiveScope, ReceiveDetail, Receive, Received, view
  <2>3. fromHelper # <<>> => 1 \in 1..Len(fromHelper) /\ Head(fromHelper) = fromHelper[1]
    BY <1>1 DEF TypeOK, FromHelperOK
  <2>4. CASE ReceiveScope
    <3>1. frozen => Head(fromHelper).frame.gen = display.gen
      BY <1>1, <2>3, <2>4 DEF ReceiveScope, Receive, AnswersAreShown, FromPinned, GenOf
    <3>2. ~NoDetail.pinned  BY DEF NoDetail
    <3>3. frozen => display'.gen = display.gen /\ ~detail'.pinned  BY <2>4, <3>1, <3>2 DEF ReceiveScope
    <3> QED  BY <2>1, <2>2, <3>3 DEF Stays, NoneAsked, freeze, helper
  <2>5. CASE ReceiveDetail
    <3>1. frozen /\ Head(fromHelper).detail.pinned => Head(fromHelper).detail.gen = display.gen
      BY <1>1, <2>3, <2>5 DEF ReceiveDetail, Receive, AnswersAreShown, FromPinned, GenOf
    <3>2. display' = display /\ detail' \in {Head(fromHelper).detail, detail}  BY <2>5 DEF ReceiveDetail
    <3>3. frozen => display'.gen = display.gen /\ (detail'.pinned => detail'.gen = display.gen)
      BY <1>1, <3>1, <3>2 DEF FrozenAnswerExact
    <3> QED  BY <2>1, <2>2, <3>3 DEF Stays, NoneAsked, freeze, helper
  <2> QED  BY <1>11, <2>4, <2>5
<1>12. CASE ReceiveError \/ RestartBackend
  <2>1. Pushed(frozen)  BY <1>1, <1>12, OtherPushes
  <2>2. frozen' = frozen /\ display' = display /\ detail' = detail /\ UNCHANGED pinned /\ Received
    BY <1>12 DEF ReceiveError, RestartBackend, Receive, Received, view, shown, helper
  <2>3. NoneAsked /\ UNCHANGED freezeSequence
    BY <1>12 DEF ReceiveError, RestartBackend, NewError, SameError, NoneAsked, freeze
  <2> QED  BY <1>1, <2>1, <2>2, <2>3 DEF Stays, FrozenAnswerExact
<1>13. CASE Sample \/ SampleFails
  <2>1. /\ UNCHANGED <<frozen, freeze, display, detail, pinned, toHelper>>
    BY <1>13 DEF Sample, SampleFails, view, shown
  <2>2. CASE Sample
    <3> DEFINE r == [type |-> "snapshot", frame |-> full']
    <3>1. HelperOK'  BY <1>1, HelperStep
    <3>2. r \in Records  BY <3>1, RecordsMade DEF HelperOK
    <3>3. ~IsResult(r) /\ ~FromPinned(r)  BY DEF IsResult, FromPinned
    <3>4. fromHelper' = Append(fromHelper, r)  BY <2>2 DEF Sample, Answer
    <3>5. full' # NoFrame
      <4>1. gens + 1 # 0  BY <1>1 DEF TypeOK, HistOK
      <4>2. full'.gen = gens + 1  BY <2>2 DEF Sample
      <4> QED  BY <4>1, <4>2 DEF NoFrame
    <3> HIDE DEF r
    <3> QED  BY <2>1, <3>2, <3>3, <3>4, <3>5 DEF Answers
  <2>3. CASE SampleFails
    <3> DEFINE r == [type |-> "error"]
    <3>1. r \in Records  BY RecordsMade
    <3>2. ~IsResult(r) /\ ~FromPinned(r) /\ r.type # "snapshot"  BY DEF IsResult, FromPinned
    <3>3. fromHelper' = Append(fromHelper, r)  BY <2>3 DEF SampleFails, Answer
    <3> QED  BY <2>1, <3>1, <3>2, <3>3 DEF Answers
  <2> QED  BY <1>13, <2>2, <2>3
<1>14. CASE DoScope
  <2> DEFINE c == Head(toHelper)
             r == [type |-> "scope-result", frame |-> Scoped(c.groups)]
  <2>1. UNCHANGED <<frozen, freeze, display, detail, pinned>>  BY <1>14 DEF DoScope, view, shown
  <2>2. toHelper # <<>> /\ toHelper' = Tail(toHelper) /\ c.op = "scope"  BY <1>14 DEF DoScope, Command
  <2>3. ~IsFreeze(c) /\ (c.frozen => ForFrozen(c))  BY <2>2 DEF IsFreeze, ForFrozen
  <2>4. fromHelper' = fromHelper \/ (c.frozen /\ pinned # NoFrame /\ fromHelper' = Append(fromHelper, r))
    BY <1>14 DEF DoScope, Answer
  <2>5. c.groups \in SUBSET Groups  BY <1>1, <1>14, CommandTyped, OperandTyped DEF DoScope, TypeOK
  <2>6. r \in Records  BY <1>1, <2>5, AnswersTyped, RecordsMade
  <2>7. ~IsResult(r) /\ GenOf(r) = pinned.gen /\ r.type # "snapshot"  BY DEF IsResult, GenOf, Scoped
  <2> HIDE DEF c, r
  <2> QED  BY <2>1, <2>2, <2>3, <2>4, <2>6, <2>7 DEF Answers, c
<1>15. CASE DoInspect
  <2> DEFINE c == Head(toHelper)
             r == [type |-> "detail", detail |-> Inspected(c.frozen)]
  <2>1. UNCHANGED <<frozen, freeze, display, detail, pinned>>  BY <1>15 DEF DoInspect, view, shown, helper
  <2>2. toHelper # <<>> /\ toHelper' = Tail(toHelper) /\ c.op = "inspect"  BY <1>15 DEF DoInspect, Command
  <2>3. ~IsFreeze(c) /\ (c.frozen => ForFrozen(c))  BY <2>2 DEF IsFreeze, ForFrozen
  <2>4. fromHelper' = Append(fromHelper, r)  BY <1>15 DEF DoInspect, Answer
  <2>5. c.frozen \in BOOLEAN  BY <1>1, <1>15, CommandTyped, OperandTyped DEF DoInspect, TypeOK
  <2>6. r \in Records  BY <1>1, <2>5, AnswersTyped, RecordsMade
  <2>7. FromPinned(r) => c.frozen /\ pinned # NoFrame /\ GenOf(r) = pinned.gen
    BY DEF FromPinned, GenOf, Inspected, NoDetail
  <2>8. ~IsResult(r) /\ r.type # "snapshot"  BY DEF IsResult
  <2> HIDE DEF c, r
  <2> QED  BY <2>1, <2>2, <2>3, <2>4, <2>6, <2>7, <2>8 DEF Answers, c
<1>16. CASE DoAction \/ Discard
  <2> DEFINE r == [type |-> "error"]
  <2>1. UNCHANGED <<frozen, freeze, display, detail, pinned>>  BY <1>16 DEF DoAction, Discard, view, shown, helper
  <2>2. toHelper # <<>> /\ toHelper' = Tail(toHelper)  BY <1>16 DEF DoAction, Discard, Command
  <2>3. fromHelper' = fromHelper \/ fromHelper' = Append(fromHelper, r)  BY <1>16 DEF DoAction, Discard, Answer
  <2>4. r \in Records /\ ~IsResult(r) /\ ~FromPinned(r) /\ r.type # "snapshot"
    BY RecordsMade DEF IsResult, FromPinned
  <2> HIDE DEF r
  <2> QED  BY <2>1, <2>2, <2>3, <2>4 DEF Answers
<1>17. CASE HelperExits
  <2>1. /\ UNCHANGED <<frozen, display, detail, freezeSequence>> /\ NoneAsked
        /\ pinned' = NoFrame /\ fromHelper' = <<>> /\ toHelper' = <<>>
    BY <1>17 DEF HelperExits, NewError, NoneAsked, view, shown, freeze
  <2>2. 1..Len(<<>>) = {}  OBVIOUS
  <2>3. exits' # 0  BY <1>1, <1>17 DEF HelperExits, TypeOK, HistOK
  <2> QED  BY <2>1, <2>2, <2>3 DEF Loses
<1>18. CASE HelperStarts
  <2> DEFINE c == [op |-> "scope", groups |-> scopeKey[1], frozen |-> FALSE]
  <2>1. Aside(c)  BY DEF Aside, IsFreeze, Confirmed, ForFrozen
  <2>2. toHelper' = <<c>>  BY <1>18 DEF HelperStarts
  <2>3. fromHelper' = <<>>  BY <1>1, <1>18 DEF HelperStarts, TypeOK, FromHelperOK
  <2>4. UNCHANGED <<frozen, display, detail, freezeSequence>> /\ NoneAsked /\ pinned' = NoFrame /\ ~up
    BY <1>18 DEF HelperStarts, FreshHelper, NoneAsked, view, shown, freeze
  <2> HIDE DEF c
  <2>5. 1..Len(<<c>>) = {1} /\ <<c>>[1] = c  OBVIOUS
  <2> QED  BY <2>1, <2>2, <2>3, <2>4, <2>5 DEF Loses
<1>19. CASE UNCHANGED vars
  <2>1. Pushed(frozen)  BY <1>1, <1>19, QuietPushed DEF vars, TypeOK
  <2> QED  BY <1>1, <1>19, <2>1
        DEF vars, Stays, NoneAsked, Received, view, freeze, shown, helper, FrozenAnswerExact
<1> QED  BY <1>2, <1>3, <1>4, <1>5, <1>6, <1>7, <1>8, <1>9, <1>10, <1>11, <1>12, <1>13, <1>14, <1>15,
            <1>16, <1>17, <1>18, <1>19 DEF Next

\* A queue that is read or written at its ends keeps its order.
LEMMA TailShifts ==
  ASSUME NEW S, NEW q \in Seq(S), q # <<>>
  PROVE  /\ 1 \in 1..Len(q) /\ Head(q) = q[1]
         /\ Tail(q) \in Seq(S) /\ Len(Tail(q)) = Len(q) - 1
         /\ \A i \in 1..Len(Tail(q)) : i + 1 \in 1..Len(q) /\ Tail(q)[i] = q[i + 1]
<1>1. Len(q) \in Nat /\ Len(q) > 0  BY EmptySeq
<1>2. Tail(q) \in Seq(S) /\ Len(Tail(q)) = Len(q) - 1 /\ \A i \in 1..Len(Tail(q)) : Tail(q)[i] = q[i + 1]
  BY HeadTailProperties
<1> QED  BY <1>1, <1>2

\* The elements of a queue and of its extension.
LEMMA AppendEnds ==
  ASSUME NEW S, NEW q \in Seq(S), NEW e \in S
  PROVE  /\ Len(Append(q, e)) = Len(q) + 1
         /\ \A i \in 1..Len(Append(q, e)) :
              \/ i \in 1..Len(q) /\ Append(q, e)[i] = q[i]
              \/ i = Len(q) + 1 /\ Append(q, e)[i] = e
  BY AppendProperties

\* What the view leaves in the pipe from the helper is what was there, in its order.
LEMMA ReceivedShifts ==
  ASSUME FromHelperOK, Received
  PROVE  \E d \in {0, 1} :
           \A i \in 1..Len(fromHelper') : i + d \in 1..Len(fromHelper) /\ fromHelper'[i] = fromHelper[i + d]
<1>1. CASE fromHelper' = fromHelper
  <2>1. Len(fromHelper) \in Nat  BY DEF FromHelperOK
  <2>2. \A i \in 1..Len(fromHelper) : i + 0 = i  BY <2>1
  <2> QED  BY <1>1, <2>2
<1>2. CASE fromHelper # <<>> /\ fromHelper' = Tail(fromHelper)
  BY <1>2, TailShifts DEF FromHelperOK
<1> QED  BY <1>1, <1>2 DEF Received

\* A step that writes no freeze and reads answers in their order keeps the numbers.
LEMMA NumberedShifts ==
  ASSUME TypeOK, Numbered, NEW fz, Pushed(fz), Received, UNCHANGED freezeSequence
  PROVE  Numbered'
<1>1. PICK d \in {0, 1} :
        \A i \in 1..Len(fromHelper') : i + d \in 1..Len(fromHelper) /\ fromHelper'[i] = fromHelper[i + d]
  BY ReceivedShifts DEF TypeOK
<1>2. \A i \in 1..Len(toHelper') : IsFreeze(toHelper'[i]) => i \in 1..Len(toHelper) /\ toHelper'[i] = toHelper[i]
  BY DEF Pushed, Quiet, TypeOK, ToHelperOK
<1>3. Len(fromHelper') \in Nat  BY DEF TypeOK, FromHelperOK, Received
<1>4. \A i \in 1..Len(toHelper') : IsFreeze(toHelper'[i]) => toHelper'[i].id <= freezeSequence'
  BY <1>2 DEF Numbered
<1>5. \A i \in 1..Len(fromHelper') : IsResult(fromHelper'[i]) => fromHelper'[i].id <= freezeSequence'
  BY <1>1 DEF Numbered
<1>6. \A i, j \in 1..Len(toHelper') :
        i < j /\ IsFreeze(toHelper'[i]) /\ IsFreeze(toHelper'[j]) => toHelper'[i].id < toHelper'[j].id
  BY <1>2 DEF Numbered
<1>7. \A i, j \in 1..Len(fromHelper') :
        i < j /\ IsResult(fromHelper'[i]) /\ IsResult(fromHelper'[j]) => fromHelper'[i].id < fromHelper'[j].id
  <2> SUFFICES ASSUME NEW i \in 1..Len(fromHelper'), NEW j \in 1..Len(fromHelper'), i < j,
                      IsResult(fromHelper'[i]), IsResult(fromHelper'[j])
               PROVE  fromHelper'[i].id < fromHelper'[j].id
    OBVIOUS
  <2>1. i + d < j + d  BY <1>1, <1>3
  <2> QED  BY <1>1, <2>1 DEF Numbered
<1>8. \A i \in 1..Len(fromHelper'), j \in 1..Len(toHelper') :
        IsResult(fromHelper'[i]) /\ IsFreeze(toHelper'[j]) => fromHelper'[i].id < toHelper'[j].id
  BY <1>1, <1>2 DEF Numbered
<1> QED  BY <1>4, <1>5, <1>6, <1>7, <1>8 DEF Numbered

\* Taking an answer from the pipe keeps the rest.
LEMMA AnswerIsPinnedShifts ==
  ASSUME TypeOK, AnswerIsPinned, Received, UNCHANGED <<freezeSequence, pinned>>
  PROVE  AnswerIsPinned'
<1>1. PICK d \in {0, 1} :
        \A i \in 1..Len(fromHelper') : i + d \in 1..Len(fromHelper) /\ fromHelper'[i] = fromHelper[i + d]
  BY ReceivedShifts DEF TypeOK
<1> QED  BY <1>1 DEF AnswerIsPinned

\* A view that stays as it is keeps the invariant.
LEMMA StaysInv == FreezeInv /\ TypeOK' /\ Stays => FreezeInv'
<1> SUFFICES ASSUME FreezeInv, TypeOK', Stays PROVE FreezeInv'  OBVIOUS
<1> USE DEF Stays
<1>1. TypeOK /\ Numbered /\ AnswerIsPinned  BY DEF FreezeInv
<1>2. PICK d \in {0, 1} :
        \A i \in 1..Len(fromHelper') : i + d \in 1..Len(fromHelper) /\ fromHelper'[i] = fromHelper[i + d]
  BY <1>1, ReceivedShifts DEF TypeOK
<1>3. \A i \in 1..Len(toHelper') :
        \/ i \in 1..Len(toHelper) /\ toHelper'[i] = toHelper[i]
        \/ ~IsFreeze(toHelper'[i]) /\ (ForFrozen(toHelper'[i]) => frozen)
  BY <1>1 DEF Pushed, Quiet, TypeOK, ToHelperOK
<1>4. Numbered'  BY <1>1, NumberedShifts
<1>5. AwaitsLast'  BY DEF FreezeInv, AwaitsLast, NoneAsked
<1>6. OnlyThaws'  BY <1>2, <1>3 DEF FreezeInv, OnlyThaws
<1>7. AnswerIsPinned'  BY <1>1, AnswerIsPinnedShifts
<1>8. PinnedIsShown'  BY DEF FreezeInv, PinnedIsShown
<1>9. AnswersAreShown'  BY <1>2 DEF FreezeInv, AnswersAreShown
<1>10. AskedBefore'
  <2> SUFFICES ASSUME ~frozen', freezePending' PROVE AskedBefore'  BY DEF AskedBefore
  <2>1. ~frozen /\ freezePending /\ requestId' = requestId  BY DEF NoneAsked
  <2>2. \A i, j \in 1..Len(toHelper') :
          i < j /\ IsFreeze(toHelper'[i]) /\ toHelper'[i].id = requestId' => ~ForFrozen(toHelper'[j])
    BY <1>3, <2>1 DEF FreezeInv, AskedBefore
  <2>3. ASSUME NEW i \in 1..Len(fromHelper'), IsResult(fromHelper'[i]), fromHelper'[i].id = requestId'
        PROVE  /\ \A j \in 1..Len(fromHelper') : i < j => ~FromPinned(fromHelper'[j])
               /\ \A j \in 1..Len(toHelper') : ~ForFrozen(toHelper'[j])
    <3>1. i + d \in 1..Len(fromHelper) /\ IsResult(fromHelper[i + d]) /\ fromHelper[i + d].id = requestId
      BY <1>2, <2>1, <2>3
    <3>2. /\ \A j \in 1..Len(fromHelper) : i + d < j => ~FromPinned(fromHelper[j])
          /\ \A j \in 1..Len(toHelper) : ~ForFrozen(toHelper[j])
      BY <2>1, <3>1 DEF FreezeInv, AskedBefore
    <3>3. ASSUME NEW j \in 1..Len(fromHelper'), i < j PROVE ~FromPinned(fromHelper'[j])
      <4>1. i + d < j + d  BY <3>3
      <4> QED  BY <1>2, <3>2, <4>1
    <3> QED  BY <1>3, <2>1, <3>2, <3>3
  <2> QED  BY <2>2, <2>3 DEF AskedBefore
<1>11. FrozenAnswerExact'  BY DEF FrozenAnswerExact
<1> QED  BY <1>4, <1>5, <1>6, <1>7, <1>8, <1>9, <1>10, <1>11 DEF FreezeInv

\* So does one that is live from now on.
LEMMA ThawsInv == FreezeInv /\ TypeOK' /\ Thaws => FreezeInv'
<1> SUFFICES ASSUME FreezeInv, TypeOK', Thaws PROVE FreezeInv'  OBVIOUS
<1>1. Numbered'  BY NumberedShifts DEF Thaws, FreezeInv
<1>2. AnswerIsPinned'  BY AnswerIsPinnedShifts DEF Thaws, FreezeInv
<1>3. ~frozen' /\ ~freezePending'  BY DEF Thaws
<1>4. AwaitsLast' /\ OnlyThaws' /\ PinnedIsShown' /\ AnswersAreShown' /\ AskedBefore' /\ FrozenAnswerExact'
  BY <1>3 DEF AwaitsLast, OnlyThaws, PinnedIsShown, AnswersAreShown, AskedBefore, FrozenAnswerExact
<1> QED  BY <1>1, <1>2, <1>4 DEF FreezeInv

\* The next freeze has the next number.
LEMMA NumberedGrows ==
  ASSUME TypeOK, Numbered, NEW state, PushedFreeze(FreezeCommand(state)), UNCHANGED fromHelper,
         freezeSequence' = freezeSequence + 1
  PROVE  /\ Numbered'
         /\ \A i \in 1..Len(fromHelper') : IsResult(fromHelper'[i]) => fromHelper'[i].id < freezeSequence'
         /\ \A i \in 1..Len(toHelper') :
              IsFreeze(toHelper'[i]) /\ toHelper'[i].id = freezeSequence' =>
                \A j \in 1..Len(toHelper') : i < j => ~ForFrozen(toHelper'[j])
<1> DEFINE c == FreezeCommand(state)
           n == freezeSequence
<1>1. c.id = n + 1 /\ c.state = state  BY DEF FreezeCommand
<1>2. n \in Int /\ Len(toHelper) \in Nat /\ Len(fromHelper) \in Nat
  BY DEF TypeOK, RequestOK, ToHelperOK, FromHelperOK
<1>3. Len(toHelper') \in Nat /\ Len(toHelper) <= Len(toHelper')  BY <1>2 DEF PushedFreeze
<1>4. \A i \in 1..Len(toHelper') :
        \/ i \in 1..Len(toHelper) /\ toHelper'[i] = toHelper[i]
        \/ i = Len(toHelper) + 1 /\ toHelper'[i] = c
        \/ i > Len(toHelper) + 1 /\ ~IsFreeze(toHelper'[i]) /\ ~ForFrozen(toHelper'[i])
  BY <1>2, <1>3 DEF PushedFreeze, Aside
<1> HIDE DEF c
<1>5. /\ \A i \in 1..Len(toHelper) : IsFreeze(toHelper[i]) => toHelper[i].id \in Int /\ toHelper[i].id <= n
      /\ \A i \in 1..Len(fromHelper) : IsResult(fromHelper[i]) => fromHelper[i].id \in Int /\ fromHelper[i].id <= n
  <2>1. ASSUME NEW i \in 1..Len(toHelper), IsFreeze(toHelper[i]) PROVE toHelper[i].id \in Int
    BY <2>1, OperandTyped DEF TypeOK, ToHelperOK, IsFreeze
  <2>2. ASSUME NEW i \in 1..Len(fromHelper), IsResult(fromHelper[i]) PROVE fromHelper[i].id \in Int
    BY <2>2, RecordTyped DEF TypeOK, FromHelperOK, IsResult
  <2> QED  BY <2>1, <2>2 DEF Numbered
<1>6. \A i \in 1..Len(toHelper') : IsFreeze(toHelper'[i]) => toHelper'[i].id <= n + 1
  BY <1>1, <1>2, <1>4, <1>5
<1>7. \A i \in 1..Len(fromHelper') : IsResult(fromHelper'[i]) => fromHelper'[i].id < n + 1
  BY <1>2, <1>5
<1>8. \A i, j \in 1..Len(toHelper') :
        i < j /\ IsFreeze(toHelper'[i]) /\ IsFreeze(toHelper'[j]) => toHelper'[i].id < toHelper'[j].id
  <2> SUFFICES ASSUME NEW i \in 1..Len(toHelper'), NEW j \in 1..Len(toHelper'), i < j,
                      IsFreeze(toHelper'[i]), IsFreeze(toHelper'[j])
               PROVE  toHelper'[i].id < toHelper'[j].id
    OBVIOUS
  <2>1. i \in 1..Len(toHelper) /\ toHelper'[i] = toHelper[i]  BY <1>2, <1>4
  <2>2. CASE j \in 1..Len(toHelper) /\ toHelper'[j] = toHelper[j]  BY <2>1, <2>2 DEF Numbered
  <2>3. CASE toHelper'[j] = c  BY <1>1, <1>2, <1>5, <2>1, <2>3
  <2> QED  BY <1>4, <2>2, <2>3
<1>9. \A i, j \in 1..Len(fromHelper') :
        i < j /\ IsResult(fromHelper'[i]) /\ IsResult(fromHelper'[j]) => fromHelper'[i].id < fromHelper'[j].id
  BY DEF Numbered
<1>10. \A i \in 1..Len(fromHelper'), j \in 1..Len(toHelper') :
         IsResult(fromHelper'[i]) /\ IsFreeze(toHelper'[j]) => fromHelper'[i].id < toHelper'[j].id
  <2> SUFFICES ASSUME NEW i \in 1..Len(fromHelper), NEW j \in 1..Len(toHelper'),
                      IsResult(fromHelper[i]), IsFreeze(toHelper'[j])
               PROVE  fromHelper[i].id < toHelper'[j].id
    OBVIOUS
  <2>1. CASE j \in 1..Len(toHelper) /\ toHelper'[j] = toHelper[j]  BY <2>1 DEF Numbered
  <2>2. CASE toHelper'[j] = c  BY <1>1, <1>2, <1>5, <2>2
  <2> QED  BY <1>4, <2>1, <2>2
<1>11. \A i \in 1..Len(fromHelper') : IsResult(fromHelper'[i]) => fromHelper'[i].id <= n + 1  BY <1>2, <1>5
<1>12. Numbered'  BY <1>6, <1>8, <1>9, <1>10, <1>11 DEF Numbered
<1>13. ASSUME NEW i \in 1..Len(toHelper'), IsFreeze(toHelper'[i]), toHelper'[i].id = n + 1,
              NEW j \in 1..Len(toHelper'), i < j
       PROVE  ~ForFrozen(toHelper'[j])
  <2>1. i = Len(toHelper) + 1  BY <1>2, <1>4, <1>5, <1>13
  <2>2. j > Len(toHelper) + 1  BY <1>2, <1>13, <2>1
  <2> QED  BY <1>2, <1>4, <2>2
<1> QED  BY <1>7, <1>12, <1>13

\* A view that returns to live waits for nothing.
LEMMA ReleasesInv == FreezeInv /\ TypeOK' /\ Releases => FreezeInv'
<1> SUFFICES ASSUME FreezeInv, TypeOK', Releases PROVE FreezeInv'  OBVIOUS
<1>1. /\ Numbered'
      /\ \A i \in 1..Len(fromHelper') : IsResult(fromHelper'[i]) => fromHelper'[i].id < freezeSequence'
  BY NumberedGrows DEF Releases, FreezeInv
<1>2. freezeSequence' \in Int  BY DEF TypeOK, RequestOK
<1>3. AnswerIsPinned'
  <2> SUFFICES ASSUME NEW i \in 1..Len(fromHelper'), IsResult(fromHelper'[i]), fromHelper'[i].id = freezeSequence'
               PROVE  FALSE
    BY DEF AnswerIsPinned
  <2> QED  BY <1>1, <1>2
<1>4. ~frozen' /\ ~freezePending'  BY DEF Releases
<1>5. AwaitsLast' /\ OnlyThaws' /\ PinnedIsShown' /\ AnswersAreShown' /\ AskedBefore' /\ FrozenAnswerExact'
  BY <1>4 DEF AwaitsLast, OnlyThaws, PinnedIsShown, AnswersAreShown, AskedBefore, FrozenAnswerExact
<1> QED  BY <1>1, <1>3, <1>5 DEF FreezeInv

\* A frozen view asks for its own generation.
LEMMA AsksInv == FreezeInv /\ TypeOK' /\ Asks => FreezeInv'
<1> SUFFICES ASSUME FreezeInv, TypeOK', Asks PROVE FreezeInv'  OBVIOUS
<1>1. /\ Numbered'
      /\ \A i \in 1..Len(fromHelper') : IsResult(fromHelper'[i]) => fromHelper'[i].id < freezeSequence'
      /\ \A i \in 1..Len(toHelper') :
           IsFreeze(toHelper'[i]) /\ toHelper'[i].id = freezeSequence' =>
             \A j \in 1..Len(toHelper') : i < j => ~ForFrozen(toHelper'[j])
  BY NumberedGrows DEF Asks, FreezeInv
<1>2. freezeSequence' \in Int  BY DEF TypeOK, RequestOK
<1>3. \A i \in 1..Len(fromHelper') : ~(IsResult(fromHelper'[i]) /\ fromHelper'[i].id = freezeSequence')
  BY <1>1, <1>2
<1>4. AnswerIsPinned'  BY <1>3 DEF AnswerIsPinned
<1>5. AwaitsLast'  BY DEF Asks, AwaitsLast
<1>6. OnlyThaws'
  <2> SUFFICES ASSUME frozen' PROVE OnlyThaws'  BY DEF OnlyThaws
  <2> DEFINE c == FreezeCommand(~frozen)
  <2>1. frozen  BY DEF Asks
  <2>2. ~c.state  BY <2>1 DEF FreezeCommand
  <2>3. PushedFreeze(c)  BY DEF Asks
  <2> HIDE DEF c
  <2>4. \A i \in 1..Len(toHelper') :
          \/ i \in 1..Len(toHelper) /\ toHelper'[i] = toHelper[i]
          \/ toHelper'[i] = c
          \/ ~IsFreeze(toHelper'[i])
    BY <2>3 DEF PushedFreeze, Aside, FreezeInv, TypeOK, ToHelperOK
  <2>5. \A i \in 1..Len(toHelper') : IsFreeze(toHelper'[i]) => ~toHelper'[i].state
    BY <2>1, <2>2, <2>4 DEF FreezeInv, OnlyThaws
  <2>6. \A i \in 1..Len(fromHelper') : IsResult(fromHelper'[i]) => ~fromHelper'[i].frozen
    BY <2>1 DEF Asks, FreezeInv, OnlyThaws
  <2> QED  BY <2>5, <2>6 DEF OnlyThaws
<1>7. PinnedIsShown' /\ AnswersAreShown' /\ FrozenAnswerExact'
  BY DEF Asks, FreezeInv, PinnedIsShown, AnswersAreShown, FrozenAnswerExact
<1>8. AskedBefore'
  <2>1. requestId' = freezeSequence'  BY DEF Asks
  <2> QED  BY <1>1, <1>3, <2>1 DEF AskedBefore
<1> QED  BY <1>1, <1>4, <1>5, <1>6, <1>7, <1>8 DEF FreezeInv

\* The answer that makes a view frozen is the last of all, and nothing of an earlier frozen view follows it.
LEMMA FreezesInv == FreezeInv /\ TypeOK' /\ Freezes => FreezeInv'
<1> SUFFICES ASSUME FreezeInv, TypeOK', Freezes PROVE FreezeInv'  OBVIOUS
<1> DEFINE answer == Head(fromHelper)
<1>1. TypeOK /\ Numbered /\ AnswerIsPinned  BY DEF FreezeInv
<1>2. Received /\ UNCHANGED <<freezeSequence, pinned>> /\ Pushed(TRUE)  BY DEF Freezes, Received
<1>3. Numbered'  BY <1>1, <1>2, NumberedShifts
<1>4. AnswerIsPinned'  BY <1>1, <1>2, AnswerIsPinnedShifts
<1>5. /\ IsResult(answer) /\ answer.frozen /\ answer.id = freezeSequence /\ answer.id = requestId
      /\ fromHelper # <<>> /\ fromHelper' = Tail(fromHelper) /\ freezePending
      /\ frozen' /\ ~freezePending' /\ display' = answer.frame /\ ~detail'.pinned
  BY DEF Freezes, FreezeInv, AwaitsLast
<1>6. 1 \in 1..Len(fromHelper) /\ answer = fromHelper[1]
  BY <1>1, <1>5, TailShifts DEF TypeOK, FromHelperOK
<1>7. \A i \in 1..Len(fromHelper') :
        i + 1 \in 1..Len(fromHelper) /\ 1 < i + 1 /\ fromHelper'[i] = fromHelper[i + 1]
  <2>1. \A i \in 1..Len(fromHelper') : i + 1 \in 1..Len(fromHelper) /\ fromHelper'[i] = fromHelper[i + 1]
    BY <1>1, <1>5, TailShifts DEF TypeOK, FromHelperOK
  <2> QED  BY <2>1
<1> HIDE DEF answer
<1>8. \A i \in 1..Len(fromHelper') : ~IsResult(fromHelper'[i])
  <2> SUFFICES ASSUME NEW i \in 1..Len(fromHelper'), IsResult(fromHelper'[i]) PROVE FALSE  OBVIOUS
  <2>1. /\ i + 1 \in 1..Len(fromHelper) /\ 1 < i + 1 /\ IsResult(fromHelper[i + 1])
        /\ fromHelper[1].id < fromHelper[i + 1].id /\ fromHelper[i + 1].id <= freezeSequence
    BY <1>1, <1>5, <1>6, <1>7 DEF Numbered
  <2>2. fromHelper[i + 1].id \in Int  BY <1>1, <2>1, RecordTyped DEF TypeOK, FromHelperOK, IsResult
  <2>3. freezeSequence \in Int  BY <1>1 DEF TypeOK, RequestOK
  <2> QED  BY <1>5, <1>6, <2>1, <2>2, <2>3
<1>9. \A i \in 1..Len(toHelper) : ~IsFreeze(toHelper[i])
  <2> SUFFICES ASSUME NEW i \in 1..Len(toHelper), IsFreeze(toHelper[i]) PROVE FALSE  OBVIOUS
  <2>1. fromHelper[1].id < toHelper[i].id /\ toHelper[i].id <= freezeSequence
    BY <1>1, <1>5, <1>6 DEF Numbered
  <2>2. toHelper[i].id \in Int  BY <1>1, OperandTyped DEF TypeOK, ToHelperOK, IsFreeze
  <2>3. freezeSequence \in Int  BY <1>1 DEF TypeOK, RequestOK
  <2> QED  BY <1>5, <1>6, <2>1, <2>2, <2>3
<1>10. \A i \in 1..Len(toHelper') : ~IsFreeze(toHelper'[i])
  BY <1>1, <1>2, <1>9 DEF Pushed, Quiet, TypeOK, ToHelperOK
<1>11. ~frozen  BY <1>5, <1>6 DEF FreezeInv, OnlyThaws
<1>12. \A i \in 1..Len(fromHelper') : ~FromPinned(fromHelper'[i])
  <2>1. \A j \in 1..Len(fromHelper) : 1 < j => ~FromPinned(fromHelper[j])
    BY <1>5, <1>6, <1>11 DEF FreezeInv, AskedBefore
  <2> QED  BY <1>7, <2>1
<1>13. OnlyThaws'  BY <1>8, <1>10 DEF OnlyThaws
<1>14. PinnedIsShown'
  <2>1. pinned = answer.frame  BY <1>1, <1>5, <1>6 DEF AnswerIsPinned
  <2> QED  BY <1>2, <1>5, <2>1 DEF PinnedIsShown
<1>15. AwaitsLast' /\ AnswersAreShown' /\ AskedBefore' /\ FrozenAnswerExact'
  BY <1>5, <1>12 DEF AwaitsLast, AnswersAreShown, AskedBefore, FrozenAnswerExact
<1> QED  BY <1>3, <1>4, <1>13, <1>14, <1>15 DEF FreezeInv

\* What is left to the helper, and the answers with one more, keep their order.
LEMMA AnswersInv == FreezeInv /\ TypeOK' /\ Answers => FreezeInv'
<1> SUFFICES ASSUME FreezeInv, TypeOK', Answers PROVE FreezeInv'  OBVIOUS
<1>1. TypeOK /\ Numbered /\ UNCHANGED <<frozen, freezePending, requestId, freezeSequence, display, detail, pinned>>
  BY DEF FreezeInv, Answers, freeze
<1>2. Len(toHelper) \in Nat /\ Len(fromHelper) \in Nat  BY <1>1 DEF TypeOK, ToHelperOK, FromHelperOK
<1>3. PICK d \in {0, 1} :
        \A i \in 1..Len(toHelper') : i + d \in 1..Len(toHelper) /\ toHelper'[i] = toHelper[i + d]
  <2>1. CASE toHelper' = toHelper
    <3>1. \A i \in 1..Len(toHelper) : i + 0 = i  BY <1>2
    <3> QED  BY <2>1, <3>1
  <2>2. CASE toHelper # <<>> /\ toHelper' = Tail(toHelper)
    BY <1>1, <2>2, TailShifts DEF TypeOK, ToHelperOK
  <2> QED  BY <2>1, <2>2 DEF Answers
<1>4. \A i \in 1..Len(fromHelper') :
        \/ i \in 1..Len(fromHelper) /\ fromHelper'[i] = fromHelper[i]
        \/ /\ ~IsResult(fromHelper'[i])
           /\ FromPinned(fromHelper'[i]) =>
                /\ pinned # NoFrame /\ GenOf(fromHelper'[i]) = pinned.gen
                /\ 1 \in 1..Len(toHelper) /\ ForFrozen(toHelper[1])
  <2>1. CASE fromHelper' = fromHelper  BY <2>1
  <2>2. CASE fromHelper' # fromHelper
    <3>1. PICK r \in Records :
            /\ fromHelper' = Append(fromHelper, r) /\ ~IsResult(r)
            /\ FromPinned(r) => /\ pinned # NoFrame /\ GenOf(r) = pinned.gen
                                /\ toHelper # <<>> /\ ForFrozen(Head(toHelper))
      BY <2>2 DEF Answers
    <3>2. toHelper # <<>> => 1 \in 1..Len(toHelper) /\ Head(toHelper) = toHelper[1]
      BY <1>1, TailShifts DEF TypeOK, ToHelperOK
    <3>3. \A i \in 1..Len(fromHelper') :
            \/ i \in 1..Len(fromHelper) /\ fromHelper'[i] = fromHelper[i]
            \/ fromHelper'[i] = r
      BY <1>1, <3>1, AppendEnds DEF TypeOK, FromHelperOK
    <3> QED  BY <3>1, <3>2, <3>3
  <2> QED  BY <2>1, <2>2
<1>5. Numbered'
  <2>1. \A i \in 1..Len(fromHelper') :
          IsResult(fromHelper'[i]) => i \in 1..Len(fromHelper) /\ fromHelper'[i] = fromHelper[i]
    BY <1>4
  <2>2. \A i \in 1..Len(toHelper') : IsFreeze(toHelper'[i]) => toHelper'[i].id <= freezeSequence'
    BY <1>1, <1>3 DEF Numbered
  <2>3. \A i \in 1..Len(fromHelper') : IsResult(fromHelper'[i]) => fromHelper'[i].id <= freezeSequence'
    BY <1>1, <2>1 DEF Numbered
  <2>4. \A i, j \in 1..Len(toHelper') :
          i < j /\ IsFreeze(toHelper'[i]) /\ IsFreeze(toHelper'[j]) => toHelper'[i].id < toHelper'[j].id
    <3> SUFFICES ASSUME NEW i \in 1..Len(toHelper'), NEW j \in 1..Len(toHelper'), i < j,
                        IsFreeze(toHelper'[i]), IsFreeze(toHelper'[j])
                 PROVE  toHelper'[i].id < toHelper'[j].id
      OBVIOUS
    <3>1. i + d < j + d  BY <1>3
    <3>2. i + d \in 1..Len(toHelper) /\ j + d \in 1..Len(toHelper)  BY <1>3
    <3>3. toHelper'[i] = toHelper[i + d] /\ toHelper'[j] = toHelper[j + d]  BY <1>3
    <3> QED  BY <1>1, <3>1, <3>2, <3>3 DEF Numbered
  <2>5. \A i, j \in 1..Len(fromHelper') :
          i < j /\ IsResult(fromHelper'[i]) /\ IsResult(fromHelper'[j]) => fromHelper'[i].id < fromHelper'[j].id
    BY <1>1, <2>1 DEF Numbered
  <2>6. \A i \in 1..Len(fromHelper'), j \in 1..Len(toHelper') :
          IsResult(fromHelper'[i]) /\ IsFreeze(toHelper'[j]) => fromHelper'[i].id < toHelper'[j].id
    BY <1>1, <1>3, <2>1 DEF Numbered
  <2> QED  BY <2>2, <2>3, <2>4, <2>5, <2>6 DEF Numbered
<1>6. AwaitsLast' /\ PinnedIsShown' /\ FrozenAnswerExact'
  BY <1>1 DEF FreezeInv, AwaitsLast, PinnedIsShown, FrozenAnswerExact
<1>7. OnlyThaws'  BY <1>1, <1>3, <1>4 DEF FreezeInv, OnlyThaws
<1>8. AnswerIsPinned'  BY <1>1, <1>4 DEF FreezeInv, AnswerIsPinned
<1>9. AnswersAreShown'  BY <1>1, <1>4 DEF FreezeInv, AnswersAreShown, PinnedIsShown
<1>10. AskedBefore'
  <2> SUFFICES ASSUME ~frozen', freezePending' PROVE AskedBefore'  BY DEF AskedBefore
  <2>1. ~frozen /\ freezePending /\ requestId' = requestId  BY <1>1
  <2>2. ASSUME NEW i \in 1..Len(toHelper'), NEW j \in 1..Len(toHelper'), i < j,
               IsFreeze(toHelper'[i]), toHelper'[i].id = requestId'
        PROVE  ~ForFrozen(toHelper'[j])
    <3>1. i + d < j + d  BY <1>3, <2>2
    <3>2. i + d \in 1..Len(toHelper) /\ j + d \in 1..Len(toHelper)  BY <1>3
    <3> QED  BY <1>3, <2>1, <2>2, <3>1, <3>2 DEF FreezeInv, AskedBefore
  <2>3. ASSUME NEW i \in 1..Len(fromHelper'), IsResult(fromHelper'[i]), fromHelper'[i].id = requestId'
        PROVE  /\ \A j \in 1..Len(fromHelper') : i < j => ~FromPinned(fromHelper'[j])
               /\ \A j \in 1..Len(toHelper') : ~ForFrozen(toHelper'[j])
    <3>1. i \in 1..Len(fromHelper) /\ IsResult(fromHelper[i]) /\ fromHelper[i].id = requestId
      BY <1>4, <2>1, <2>3
    <3>2. /\ \A j \in 1..Len(fromHelper) : i < j => ~FromPinned(fromHelper[j])
          /\ \A j \in 1..Len(toHelper) : ~ForFrozen(toHelper[j])
      BY <2>1, <3>1 DEF FreezeInv, AskedBefore
    <3> QED  BY <1>3, <1>4, <3>2
  <2> QED  BY <2>2, <2>3 DEF AskedBefore
<1> QED  BY <1>5, <1>6, <1>7, <1>8, <1>9, <1>10 DEF FreezeInv

\* A freeze that is carried out becomes the last answer.
LEMMA DoFreezeInv == FreezeInv /\ TypeOK' /\ DoFreeze => FreezeInv'
<1> SUFFICES ASSUME FreezeInv, TypeOK', DoFreeze PROVE FreezeInv'  OBVIOUS
<1> DEFINE c == Head(toHelper)
           r == [type |-> "freeze-result", id |-> c.id, frozen |-> c.state, frame |-> pinned']
<1>1. TypeOK /\ Numbered /\ UNCHANGED <<frozen, freezePending, requestId, freezeSequence, display, detail>>
  BY DEF FreezeInv, DoFreeze, freeze, view, shown
<1>2. Len(toHelper) \in Nat /\ Len(fromHelper) \in Nat /\ Len(toHelper') \in Nat
  BY <1>1 DEF TypeOK, ToHelperOK, FromHelperOK
<1>3. toHelper # <<>> /\ IsFreeze(c) /\ toHelper' = Tail(toHelper) /\ fromHelper' = Append(fromHelper, r)
      /\ pinned' = IF c.state THEN full ELSE NoFrame
  BY DEF DoFreeze, Command, Answer, IsFreeze
<1>4. c.id \in Int /\ c.id \in 1..MaxRequests /\ c.state \in BOOLEAN
  BY <1>1, CommandTyped, OperandTyped DEF DoFreeze, TypeOK
<1>5. r \in Records
  <2>1. pinned' \in Frames  BY DEF TypeOK, HelperOK
  <2> QED  BY <1>4, <2>1, RecordsMade
<1>6. IsResult(r) /\ ~FromPinned(r) /\ r.id = c.id /\ r.frozen = c.state /\ r.frame = pinned'
  BY DEF IsResult, FromPinned
<1>7. 1 \in 1..Len(toHelper) /\ c = toHelper[1]
      /\ \A i \in 1..Len(toHelper') : i + 1 \in 1..Len(toHelper) /\ toHelper'[i] = toHelper[i + 1]
  BY <1>1, <1>3, TailShifts DEF TypeOK, ToHelperOK
<1>8. \A i \in 1..Len(fromHelper') :
        \/ i \in 1..Len(fromHelper) /\ fromHelper'[i] = fromHelper[i]
        \/ i = Len(fromHelper) + 1 /\ fromHelper'[i] = r
  BY <1>1, <1>3, <1>5, AppendEnds DEF TypeOK, FromHelperOK
<1> HIDE DEF c, r
<1>9. \A i \in 1..Len(toHelper') : 1 < i + 1  BY <1>2
<1>10. c.id <= freezeSequence /\ freezeSequence \in Int  BY <1>1, <1>3, <1>7 DEF Numbered, TypeOK, RequestOK
<1>11. \A i \in 1..Len(fromHelper) : IsResult(fromHelper[i]) => fromHelper[i].id < c.id /\ fromHelper[i].id \in Int
  <2>1. ASSUME NEW i \in 1..Len(fromHelper), IsResult(fromHelper[i]) PROVE fromHelper[i].id \in Int
    BY <1>1, <2>1, RecordTyped DEF TypeOK, FromHelperOK, IsResult
  <2> QED  BY <1>1, <1>3, <1>7, <2>1 DEF Numbered
<1>12. \A i \in 1..Len(toHelper') : IsFreeze(toHelper'[i]) => c.id < toHelper'[i].id
  BY <1>1, <1>3, <1>7, <1>9 DEF Numbered
<1>13. Numbered'
  <2>1. \A i \in 1..Len(toHelper') : IsFreeze(toHelper'[i]) => toHelper'[i].id <= freezeSequence'
    BY <1>1, <1>7 DEF Numbered
  <2>2. \A i \in 1..Len(fromHelper') : IsResult(fromHelper'[i]) => fromHelper'[i].id <= freezeSequence'
    BY <1>1, <1>6, <1>8, <1>10 DEF Numbered
  <2>3. \A i, j \in 1..Len(toHelper') :
          i < j /\ IsFreeze(toHelper'[i]) /\ IsFreeze(toHelper'[j]) => toHelper'[i].id < toHelper'[j].id
    <3> SUFFICES ASSUME NEW i \in 1..Len(toHelper'), NEW j \in 1..Len(toHelper'), i < j,
                        IsFreeze(toHelper'[i]), IsFreeze(toHelper'[j])
                 PROVE  toHelper'[i].id < toHelper'[j].id
      OBVIOUS
    <3>1. i + 1 < j + 1  BY <1>2
    <3> QED  BY <1>1, <1>7, <3>1 DEF Numbered
  <2>4. \A i, j \in 1..Len(fromHelper') :
          i < j /\ IsResult(fromHelper'[i]) /\ IsResult(fromHelper'[j]) => fromHelper'[i].id < fromHelper'[j].id
    <3> SUFFICES ASSUME NEW i \in 1..Len(fromHelper'), NEW j \in 1..Len(fromHelper'), i < j,
                        IsResult(fromHelper'[i]), IsResult(fromHelper'[j])
                 PROVE  fromHelper'[i].id < fromHelper'[j].id
      OBVIOUS
    <3>1. Len(fromHelper') = Len(fromHelper) + 1
      BY <1>1, <1>3, <1>5, AppendEnds DEF TypeOK, FromHelperOK
    <3>2. i \in 1..Len(fromHelper) /\ fromHelper'[i] = fromHelper[i]  BY <1>2, <1>8, <3>1
    <3>3. CASE j \in 1..Len(fromHelper) /\ fromHelper'[j] = fromHelper[j]
      BY <1>1, <3>2, <3>3 DEF Numbered
    <3>4. CASE fromHelper'[j] = r  BY <1>6, <1>11, <3>2, <3>4
    <3> QED  BY <1>8, <3>3, <3>4
  <2>5. \A i \in 1..Len(fromHelper'), j \in 1..Len(toHelper') :
          IsResult(fromHelper'[i]) /\ IsFreeze(toHelper'[j]) => fromHelper'[i].id < toHelper'[j].id
    <3> SUFFICES ASSUME NEW i \in 1..Len(fromHelper'), NEW j \in 1..Len(toHelper'),
                        IsResult(fromHelper'[i]), IsFreeze(toHelper'[j])
                 PROVE  fromHelper'[i].id < toHelper'[j].id
      OBVIOUS
    <3>1. CASE i \in 1..Len(fromHelper) /\ fromHelper'[i] = fromHelper[i]
      BY <1>1, <1>7, <3>1 DEF Numbered
    <3>2. CASE fromHelper'[i] = r  BY <1>6, <1>12, <3>2
    <3> QED  BY <1>8, <3>1, <3>2
  <2> QED  BY <2>1, <2>2, <2>3, <2>4, <2>5 DEF Numbered
<1>14. AwaitsLast' /\ FrozenAnswerExact'  BY <1>1 DEF FreezeInv, AwaitsLast, FrozenAnswerExact
<1>15. frozen => ~c.state  BY <1>3, <1>7 DEF FreezeInv, OnlyThaws
<1>16. OnlyThaws'  BY <1>1, <1>6, <1>7, <1>8, <1>15 DEF FreezeInv, OnlyThaws
<1>17. AnswerIsPinned'
  <2> SUFFICES ASSUME NEW i \in 1..Len(fromHelper'), IsResult(fromHelper'[i]),
                      fromHelper'[i].id = freezeSequence
               PROVE  pinned' = fromHelper'[i].frame
    BY <1>1 DEF AnswerIsPinned
  <2>1. ~(i \in 1..Len(fromHelper) /\ fromHelper'[i] = fromHelper[i])  BY <1>4, <1>10, <1>11
  <2> QED  BY <1>6, <1>8, <2>1
<1>18. PinnedIsShown'  BY <1>1, <1>3, <1>15 DEF PinnedIsShown
<1>19. AnswersAreShown'  BY <1>1, <1>6, <1>8 DEF FreezeInv, AnswersAreShown
<1>20. AskedBefore'
  <2> SUFFICES ASSUME ~frozen', freezePending' PROVE AskedBefore'  BY DEF AskedBefore
  <2>1. ~frozen /\ freezePending /\ requestId' = requestId  BY <1>1
  <2>2. ASSUME NEW i \in 1..Len(toHelper'), NEW j \in 1..Len(toHelper'), i < j,
               IsFreeze(toHelper'[i]), toHelper'[i].id = requestId'
        PROVE  ~ForFrozen(toHelper'[j])
    <3>1. i + 1 < j + 1  BY <1>2, <2>2
    <3>2. i + 1 \in 1..Len(toHelper) /\ j + 1 \in 1..Len(toHelper)  BY <1>7
    <3> QED  BY <1>7, <2>1, <2>2, <3>1, <3>2 DEF FreezeInv, AskedBefore
  <2>3. ASSUME NEW i \in 1..Len(fromHelper'), IsResult(fromHelper'[i]), fromHelper'[i].id = requestId'
        PROVE  /\ \A j \in 1..Len(fromHelper') : i < j => ~FromPinned(fromHelper'[j])
               /\ \A j \in 1..Len(toHelper') : ~ForFrozen(toHelper'[j])
    <3>1. CASE i \in 1..Len(fromHelper) /\ fromHelper'[i] = fromHelper[i]
      <4>1. /\ \A j \in 1..Len(fromHelper) : i < j => ~FromPinned(fromHelper[j])
            /\ \A j \in 1..Len(toHelper) : ~ForFrozen(toHelper[j])
        BY <2>1, <2>3, <3>1 DEF FreezeInv, AskedBefore
      <4> QED  BY <1>6, <1>7, <1>8, <4>1
    <3>2. CASE i = Len(fromHelper) + 1 /\ fromHelper'[i] = r
      <4>1. c.id = requestId  BY <1>6, <2>1, <2>3, <3>2
      <4>2. \A j \in 1..Len(toHelper) : 1 < j => ~ForFrozen(toHelper[j])
        BY <1>3, <1>7, <2>1, <4>1 DEF FreezeInv, AskedBefore
      <4>3. \A j \in 1..Len(toHelper') : ~ForFrozen(toHelper'[j])  BY <1>7, <1>9, <4>2
      <4>4. \A j \in 1..Len(fromHelper') : ~FromPinned(fromHelper'[j]) \/ ~(i < j)
        BY <1>2, <1>6, <1>8, <3>2
      <4> QED  BY <4>3, <4>4
    <3> QED  BY <1>8, <3>1, <3>2
  <2> QED  BY <2>2, <2>3 DEF AskedBefore
<1> QED  BY <1>13, <1>14, <1>16, <1>17, <1>18, <1>19, <1>20 DEF FreezeInv

\* With a helper all that was under way is lost.
LEMMA LosesInv == FreezeInv /\ TypeOK' /\ Loses => FreezeInv'
<1> SUFFICES ASSUME FreezeInv, TypeOK', Loses PROVE FreezeInv'  OBVIOUS
<1>1. 1..Len(fromHelper') = {} /\ \A i \in 1..Len(toHelper') : ~IsFreeze(toHelper'[i])
  BY DEF Loses, Aside
<1>2. Numbered' /\ OnlyThaws' /\ AnswerIsPinned' /\ AnswersAreShown' /\ AskedBefore'
  BY <1>1 DEF Numbered, OnlyThaws, AnswerIsPinned, AnswersAreShown, AskedBefore
<1>3. AwaitsLast' /\ PinnedIsShown' /\ FrozenAnswerExact'
  BY DEF Loses, NoneAsked, FreezeInv, AwaitsLast, PinnedIsShown, FrozenAnswerExact
<1> QED  BY <1>2, <1>3 DEF FreezeInv

\* The invariant holds initially.
LEMMA InitFreezeInv == Init => FreezeInv
<1> SUFFICES ASSUME Init PROVE FreezeInv  OBVIOUS
<1>1. 1..Len(<<>>) = {}  OBVIOUS
<1>2. Numbered /\ AnswerIsPinned  BY <1>1 DEF Init, Numbered, AnswerIsPinned
<1>3. AwaitsLast /\ OnlyThaws /\ PinnedIsShown /\ AnswersAreShown /\ AskedBefore /\ FrozenAnswerExact
  BY DEF Init, AwaitsLast, OnlyThaws, PinnedIsShown, AnswersAreShown, AskedBefore, FrozenAnswerExact
<1> QED  BY <1>2, <1>3, TypeInit DEF FreezeInv

\* Every kind of step keeps the invariant.
LEMMA StepFreezeInv == FreezeInv /\ [Next]_vars => FreezeInv'
<1> SUFFICES ASSUME FreezeInv, [Next]_vars PROVE FreezeInv'  OBVIOUS
<1>1. TypeOK'  BY TypeStep DEF FreezeInv
<1> QED  BY <1>1, StepKinds, StaysInv, ThawsInv, ReleasesInv, AsksInv, FreezesInv, AnswersInv, DoFreezeInv, LosesInv

\* The invariant holds always.
LEMMA AlwaysFreezeInv == Spec => []FreezeInv
  BY InitFreezeInv, StepFreezeInv, PTL DEF Spec

\* A frozen view shows what the helper has pinned, for any number of samples, requests and
\* helpers, and pipes of any length.
THEOREM FrozenIsPinned == Spec => []FrozenShowsPinned
<1>1. FreezeInv => FrozenShowsPinned  BY DEF FreezeInv, PinnedIsShown, FrozenShowsPinned
<1> QED  BY <1>1, AlwaysFreezeInv, PTL

\* Details that the helper answers for a frozen view are those of the generation it shows.
THEOREM AnswersAreExact == Spec => []FrozenAnswerExact
<1>1. FreezeInv => FrozenAnswerExact  BY DEF FreezeInv
<1> QED  BY <1>1, AlwaysFreezeInv, PTL

\* No step changes the generation of a frozen view.
LEMMA FrozenStep ==
  ASSUME FreezeInv, [Next]_vars, frozen, frozen'
  PROVE  display'.gen = display.gen
<1>1. CASE Freezes
  <2>1. 1 \in 1..Len(fromHelper) /\ Head(fromHelper) = fromHelper[1]
    BY <1>1, TailShifts DEF Freezes, FreezeInv, TypeOK, FromHelperOK
  <2> QED  BY <1>1, <2>1 DEF Freezes, FreezeInv, OnlyThaws
<1>2. CASE Stays \/ Thaws \/ Releases \/ Asks \/ Answers \/ DoFreeze \/ Loses
  BY <1>2 DEF Stays, Thaws, Releases, Asks, Answers, DoFreeze, Loses, shown
<1> QED  BY <1>1, <1>2, StepKinds

\* No step changes the generation of a frozen view.
THEOREM FrozenStays == Spec => FrozenViewStays
<1>1. FreezeInv /\ [Next]_vars => [frozen /\ frozen' => display'.gen = display.gen]_vars
  BY FrozenStep
<1> QED  BY <1>1, AlwaysFreezeInv, PTL DEF Spec, FrozenViewStays

\* A change of the view sends a scope between other commands, unless nothing changes.
LEMMA ViewSends ==
  ASSUME ToHelperOK, started, NEW fz \in BOOLEAN, NEW gs \in SUBSET Groups,
         NEW before \in Seq(Commands), NEW after \in Seq(Commands), SetView(fz, gs, before, after)
  PROVE  LET n == Len(toHelper) + Len(before)
             k == Len(ScopeCommand(fz, gs))
         IN  /\ Len(toHelper') = n + k + Len(after)
             /\ \A i \in 1..Len(toHelper) : toHelper'[i] = toHelper[i]
             /\ \A i \in Len(toHelper) + 1 .. n : toHelper'[i] = before[i - Len(toHelper)]
             /\ \A i \in n + 1 .. n + k : toHelper'[i] = ScopeCommand(fz, gs)[i - n]
             /\ \A i \in n + k + 1 .. Len(toHelper') : toHelper'[i] = after[i - n - k]
<1> DEFINE sc == ScopeCommand(fz, gs)
           s == (before \o sc) \o after
<1>1. sc \in Seq(Commands)  BY ScopeTyped
<1>2. toHelper' = toHelper \o s  BY DEF SetView, Send
<1> HIDE DEF sc
<1>3. /\ before \o sc \in Seq(Commands) /\ Len(before \o sc) = Len(before) + Len(sc)
      /\ \A i \in 1..Len(before \o sc) :
           (before \o sc)[i] = IF i <= Len(before) THEN before[i] ELSE sc[i - Len(before)]
  BY <1>1, ConcatProperties
<1>4. /\ s \in Seq(Commands) /\ Len(s) = Len(before) + Len(sc) + Len(after)
      /\ \A i \in 1..Len(s) :
           s[i] = IF i <= Len(before) + Len(sc) THEN (before \o sc)[i] ELSE after[i - (Len(before) + Len(sc))]
  BY <1>3, ConcatProperties
<1> HIDE DEF s
<1>5. /\ Len(toHelper') = Len(toHelper) + Len(s)
      /\ \A i \in 1..Len(toHelper') :
           toHelper'[i] = IF i <= Len(toHelper) THEN toHelper[i] ELSE s[i - Len(toHelper)]
  <2>1. toHelper \in Seq(Commands) /\ s \in Seq(Commands)  BY <1>4 DEF ToHelperOK
  <2> QED  BY <1>2, <2>1, ConcatProperties
<1>6. Len(toHelper) \in Nat /\ Len(before) \in Nat /\ Len(sc) \in Nat /\ Len(after) \in Nat
  BY <1>1 DEF ToHelperOK
<1> DEFINE n == Len(toHelper) + Len(before)
           k == Len(sc)
<1>7. Len(toHelper') = n + k + Len(after)  BY <1>4, <1>5, <1>6
<1>8. \A i \in 1..Len(toHelper) : toHelper'[i] = toHelper[i]  BY <1>4, <1>5, <1>6
<1>9. ASSUME NEW i \in Len(toHelper) + 1 .. n PROVE toHelper'[i] = before[i - Len(toHelper)]
  <2>1. i \in 1..Len(toHelper') /\ ~(i <= Len(toHelper)) /\ i - Len(toHelper) \in 1..Len(before)
    BY <1>6, <1>7
  <2>2. i - Len(toHelper) \in 1..Len(s) /\ i - Len(toHelper) \in 1..Len(before \o sc)
        /\ i - Len(toHelper) <= Len(before) /\ i - Len(toHelper) <= Len(before) + Len(sc)
    BY <1>3, <1>4, <1>6, <2>1
  <2> QED  BY <1>3, <1>4, <1>5, <2>1, <2>2
<1>10. ASSUME NEW i \in n + 1 .. n + k PROVE toHelper'[i] = sc[i - n]
  <2>1. i \in 1..Len(toHelper') /\ ~(i <= Len(toHelper))  BY <1>6, <1>7
  <2>2. i - Len(toHelper) \in 1..Len(s) /\ i - Len(toHelper) \in 1..Len(before \o sc)
        /\ ~(i - Len(toHelper) <= Len(before)) /\ i - Len(toHelper) <= Len(before) + Len(sc)
        /\ i - Len(toHelper) - Len(before) = i - n
    BY <1>3, <1>4, <1>6
  <2> QED  BY <1>3, <1>4, <1>5, <2>1, <2>2
<1>11. ASSUME NEW i \in n + k + 1 .. Len(toHelper') PROVE toHelper'[i] = after[i - n - k]
  <2>1. i \in 1..Len(toHelper') /\ ~(i <= Len(toHelper))  BY <1>6, <1>7
  <2>2. i - Len(toHelper) \in 1..Len(s) /\ ~(i - Len(toHelper) <= Len(before) + Len(sc))
        /\ i - Len(toHelper) - (Len(before) + Len(sc)) = i - n - k
    BY <1>4, <1>6, <1>7
  <2> QED  BY <1>4, <1>5, <2>1, <2>2
<1> QED  BY <1>7, <1>8, <1>9, <1>10, <1>11 DEF sc

-----------------------------------------------------------------------------
(* The scope. *)

IsScope(c) == c.op = "scope"

\* A helper that has read all that is under way details what the view asks for, or discarded it.
ScopeIsSent ==
  /\ (\A i \in 1..Len(toHelper) : ~IsScope(toHelper[i])) => scopeLost \/ scope = groups
  /\ \A i \in 1..Len(toHelper) :
       IsScope(toHelper[i]) /\ (\A j \in 1..Len(toHelper) : i < j => ~IsScope(toHelper[j]))
         => toHelper[i].groups = groups

ScopeInv == TypeOK /\ scopeKey = <<groups, frozen>> /\ (started => ScopeIsSent)

\* Commands about other things leave it so.
LEMMA ScopeKept ==
  ASSUME TypeOK, ScopeIsSent, groups' = groups, scope' = scope, scopeLost' = scopeLost,
         Len(toHelper') \in Nat, Len(toHelper') >= Len(toHelper),
         \A i \in 1..Len(toHelper) : toHelper'[i] = toHelper[i],
         \A i \in Len(toHelper) + 1 .. Len(toHelper') : ~IsScope(toHelper'[i])
  PROVE  ScopeIsSent'
<1>1. Len(toHelper) \in Nat  BY DEF TypeOK, ToHelperOK
<1>2. \A i \in 1..Len(toHelper') :
        (i \in 1..Len(toHelper) /\ toHelper'[i] = toHelper[i]) \/ ~IsScope(toHelper'[i])
  BY <1>1
<1>3. 1..Len(toHelper) \subseteq 1..Len(toHelper')  BY <1>1
<1>4. (\A i \in 1..Len(toHelper') : ~IsScope(toHelper'[i])) => scopeLost' \/ scope' = groups'
  <2> SUFFICES ASSUME \A i \in 1..Len(toHelper') : ~IsScope(toHelper'[i]) PROVE scopeLost \/ scope = groups
    OBVIOUS
  <2>1. \A i \in 1..Len(toHelper) : ~IsScope(toHelper[i])  BY <1>3
  <2> QED  BY <2>1 DEF ScopeIsSent
<1>5. ASSUME NEW i \in 1..Len(toHelper'), IsScope(toHelper'[i]),
             \A j \in 1..Len(toHelper') : i < j => ~IsScope(toHelper'[j])
      PROVE  toHelper'[i].groups = groups'
  <2>1. i \in 1..Len(toHelper) /\ toHelper'[i] = toHelper[i]  BY <1>2, <1>5
  <2>2. \A j \in 1..Len(toHelper) : i < j => ~IsScope(toHelper[j])  BY <1>3, <1>5
  <2> QED  BY <1>5, <2>1, <2>2 DEF ScopeIsSent
<1> QED  BY <1>4, <1>5 DEF ScopeIsSent

\* A change of the view keeps it.
LEMMA ViewScope ==
  ASSUME ScopeInv, started, scope' = scope, scopeLost' = scopeLost, NEW fz \in BOOLEAN, NEW gs \in SUBSET Groups,
         NEW before \in Seq(Commands), NEW after \in Seq(Commands), SetView(fz, gs, before, after),
         \A i \in 1..Len(before) : ~IsScope(before[i]),
         \A i \in 1..Len(after) : ~IsScope(after[i])
  PROVE  ScopeIsSent'
<1> DEFINE sc == ScopeCommand(fz, gs)
           n == Len(toHelper) + Len(before)
           k == Len(sc)
<1>1. /\ Len(toHelper') = n + k + Len(after)
      /\ \A i \in 1..Len(toHelper) : toHelper'[i] = toHelper[i]
      /\ \A i \in Len(toHelper) + 1 .. n : toHelper'[i] = before[i - Len(toHelper)]
      /\ \A i \in n + 1 .. n + k : toHelper'[i] = sc[i - n]
      /\ \A i \in n + k + 1 .. Len(toHelper') : toHelper'[i] = after[i - n - k]
  BY ViewSends DEF ScopeInv, TypeOK
<1>2. Len(toHelper) \in Nat /\ Len(before) \in Nat /\ Len(after) \in Nat
  BY DEF ScopeInv, TypeOK, ToHelperOK
<1>3. groups' = gs  BY DEF SetView
<1>4. CASE scopeKey = <<gs, fz>>
  <2>1. sc = <<>>  BY <1>4 DEF ScopeCommand
  <2>2. k = 0  BY <2>1
  <2>3. groups' = groups  BY <1>3, <1>4 DEF ScopeInv
  <2> HIDE DEF sc, k
  <2>4. ASSUME NEW i \in Len(toHelper) + 1 .. Len(toHelper') PROVE ~IsScope(toHelper'[i])
    <3>1. CASE i <= n
      <4>1. i - Len(toHelper) \in 1..Len(before) /\ i \in Len(toHelper) + 1 .. n  BY <1>2, <3>1
      <4> QED  BY <1>1, <4>1
    <3>2. CASE ~(i <= n)
      <4>1. i - n - k \in 1..Len(after) /\ i \in n + k + 1 .. Len(toHelper')  BY <1>1, <1>2, <2>2, <3>2
      <4> QED  BY <1>1, <4>1
    <3> QED  BY <3>1, <3>2
  <2>5. Len(toHelper') \in Nat /\ Len(toHelper') >= Len(toHelper)  BY <1>1, <1>2, <2>2
  <2> QED  BY <1>1, <2>3, <2>4, <2>5, ScopeKept DEF ScopeInv
<1>5. CASE scopeKey # <<gs, fz>>
  <2> DEFINE c == [op |-> "scope", groups |-> gs, frozen |-> fz]
  <2>1. sc = <<c>>  BY <1>5 DEF ScopeCommand
  <2>2. IsScope(c) /\ c.groups = gs  BY DEF IsScope
  <2> HIDE DEF c, sc
  <2>3. k = 1 /\ sc[1] = c  BY <2>1
  <2> HIDE DEF k
  <2>4. n + 1 \in 1..Len(toHelper') /\ n + 1 \in n + 1 .. n + k /\ (n + 1) - n = 1  BY <1>1, <1>2, <2>3
  <2>5. toHelper'[n + 1] = c  BY <1>1, <2>3, <2>4
  <2>6. ASSUME NEW j \in 1..Len(toHelper'), n + 1 < j PROVE ~IsScope(toHelper'[j])
    <3>1. j \in n + k + 1 .. Len(toHelper') /\ j - n - k \in 1..Len(after)  BY <1>1, <1>2, <2>3, <2>6
    <3> QED  BY <1>1, <3>1
  <2>7. ASSUME NEW i \in 1..Len(toHelper'), IsScope(toHelper'[i]),
               \A j \in 1..Len(toHelper') : i < j => ~IsScope(toHelper'[j])
        PROVE  toHelper'[i].groups = groups'
    <3>1. ~(i < n + 1)  BY <2>2, <2>4, <2>5, <2>7
    <3>2. ~(n + 1 < i)  BY <2>6, <2>7
    <3>3. i = n + 1  BY <1>2, <3>1, <3>2
    <3> QED  BY <1>3, <2>2, <2>5, <3>3
  <2>8. ~(\A i \in 1..Len(toHelper') : ~IsScope(toHelper'[i]))  BY <2>2, <2>4, <2>5
  <2> QED  BY <2>7, <2>8 DEF ScopeIsSent
<1> QED  BY <1>4, <1>5

\* The scope invariant holds initially.
LEMMA InitScopeInv == Init => ScopeInv
  BY TypeInit DEF Init, ScopeInv

\* Every step keeps the scope invariant.
LEMMA StepScopeInv == ScopeInv /\ [Next]_vars => ScopeInv'
<1> SUFFICES ASSUME ScopeInv, [Next]_vars PROVE ScopeInv'  OBVIOUS
<1>1. TypeOK /\ ToHelperOK /\ scopeKey = <<groups, frozen>> /\ (started => ScopeIsSent)
  BY DEF ScopeInv, TypeOK
<1>2. TypeOK'  BY <1>1, TypeStep
<1>3. Len(toHelper) \in Nat /\ Len(toHelper') \in Nat  BY <1>1, <1>2 DEF TypeOK, ToHelperOK
<1>4. ASSUME NEW fz \in BOOLEAN, NEW gs \in SUBSET Groups, NEW before \in Seq(Commands),
             NEW after \in Seq(Commands), SetView(fz, gs, before, after),
             \A i \in 1..Len(before) : ~IsScope(before[i]),
             \A i \in 1..Len(after) : ~IsScope(after[i]),
             UNCHANGED <<scope, scopeLost, started>>
      PROVE  ScopeInv'
  <2>1. scopeKey' = <<groups', frozen'>>  BY <1>4 DEF SetView
  <2>2. started => ScopeIsSent'  BY <1>4, ViewScope
  <2> QED  BY <1>2, <1>4, <2>1, <2>2 DEF ScopeInv
<1>5. /\ <<>> \in Seq(Commands) /\ \A i \in 1..Len(<<>>) : ~IsScope(<<>>[i])
  BY DEF IsScope
<1>6. ASSUME NEW c \in Commands PROVE <<c>> \in Seq(Commands) /\ \A i \in 1..Len(<<c>>) : <<c>>[i] = c
  OBVIOUS
<1>7. \A fz \in BOOLEAN : InspectCommand(fz) \in Commands /\ ~IsScope(InspectCommand(fz))
  BY InspectTyped DEF InspectCommand, IsScope
<1>8. ASSUME UNCHANGED <<view, scopeKey, scope, scopeLost>>, started' => started,
             \/ UNCHANGED toHelper
             \/ \E c \in Commands : Send(<<c>>) /\ ~IsScope(c)
      PROVE  ScopeInv'
  <2> SUFFICES ASSUME started PROVE ScopeIsSent'  BY <1>1, <1>2, <1>8 DEF ScopeInv, view
  <2>1. CASE UNCHANGED toHelper  BY <1>1, <1>8, <2>1 DEF ScopeIsSent, view
  <2>2. CASE \E c \in Commands : Send(<<c>>) /\ ~IsScope(c)
    BY <1>1, <1>3, <1>8, <2>2, SendOne, ScopeKept DEF view
  <2> QED  BY <1>8, <2>1, <2>2
<1>9. ASSUME UNCHANGED <<view, scopeKey, scope, started>>, toHelper # <<>>, toHelper' = Tail(toHelper),
             IF IsScope(Head(toHelper)) THEN scopeLost' ELSE scopeLost' = scopeLost
      PROVE  ScopeInv'
  <2> SUFFICES ASSUME started PROVE ScopeIsSent'  BY <1>1, <1>2, <1>9 DEF ScopeInv, view
  <2>1. /\ 1 \in 1..Len(toHelper) /\ Len(toHelper') = Len(toHelper) - 1
        /\ IF IsScope(toHelper[1]) THEN scopeLost' ELSE scopeLost' = scopeLost
        /\ \A i \in 1..Len(toHelper') : i + 1 \in 1..Len(toHelper) /\ toHelper'[i] = toHelper[i + 1]
    BY <1>1, <1>9, TailShifts DEF ToHelperOK
  <2>2. \A j \in 1..Len(toHelper) : j = 1 \/ (j - 1 \in 1..Len(toHelper') /\ toHelper'[j - 1] = toHelper[j])
    <3> SUFFICES ASSUME NEW j \in 1..Len(toHelper), j # 1
                 PROVE  j - 1 \in 1..Len(toHelper') /\ toHelper'[j - 1] = toHelper[j]
      OBVIOUS
    <3>1. j - 1 \in 1..Len(toHelper') /\ (j - 1) + 1 = j  BY <1>3, <2>1
    <3> QED  BY <2>1, <3>1
  <2>3. (\A i \in 1..Len(toHelper') : ~IsScope(toHelper'[i])) => scopeLost' \/ scope' = groups'
    BY <1>1, <1>9, <2>1, <2>2 DEF ScopeIsSent, view
  <2>4. ASSUME NEW i \in 1..Len(toHelper'), IsScope(toHelper'[i]),
               \A j \in 1..Len(toHelper') : i < j => ~IsScope(toHelper'[j])
        PROVE  toHelper'[i].groups = groups'
    <3>1. ASSUME NEW j \in 1..Len(toHelper), i + 1 < j PROVE ~IsScope(toHelper[j])
      <4>1. j - 1 \in 1..Len(toHelper') /\ toHelper'[j - 1] = toHelper[j] /\ i < j - 1  BY <1>3, <2>2, <3>1
      <4> QED  BY <2>4, <4>1
    <3> QED  BY <1>1, <1>9, <2>1, <2>4, <3>1 DEF ScopeIsSent, view
  <2> QED  BY <2>3, <2>4 DEF ScopeIsSent
<1>10. CASE DoScope
  <2> DEFINE c == Head(toHelper)
  <2>1. toHelper # <<>> /\ toHelper' = Tail(toHelper) /\ IsScope(c) /\ scope' = c.groups
        /\ UNCHANGED <<view, scopeKey, host>>
    BY <1>10 DEF DoScope, Command, IsScope
  <2> SUFFICES ASSUME started PROVE ScopeIsSent'  BY <1>1, <1>2, <2>1 DEF ScopeInv, view, host
  <2>2. /\ 1 \in 1..Len(toHelper) /\ c = toHelper[1] /\ Len(toHelper') = Len(toHelper) - 1
        /\ \A i \in 1..Len(toHelper') : i + 1 \in 1..Len(toHelper) /\ toHelper'[i] = toHelper[i + 1]
    BY <1>1, <2>1, TailShifts DEF ToHelperOK
  <2> HIDE DEF c
  <2>3. \A j \in 1..Len(toHelper) : j = 1 \/ (j - 1 \in 1..Len(toHelper') /\ toHelper'[j - 1] = toHelper[j])
    <3> SUFFICES ASSUME NEW j \in 1..Len(toHelper), j # 1
                 PROVE  j - 1 \in 1..Len(toHelper') /\ toHelper'[j - 1] = toHelper[j]
      OBVIOUS
    <3>1. j - 1 \in 1..Len(toHelper') /\ (j - 1) + 1 = j  BY <1>3, <2>2
    <3> QED  BY <2>2, <3>1
  <2>4. ASSUME \A i \in 1..Len(toHelper') : ~IsScope(toHelper'[i]) PROVE scope' = groups'
    <3>1. \A j \in 1..Len(toHelper) : 1 < j => ~IsScope(toHelper[j])  BY <2>3, <2>4
    <3> QED  BY <1>1, <2>1, <2>2, <3>1 DEF ScopeIsSent, view
  <2>5. ASSUME NEW i \in 1..Len(toHelper'), IsScope(toHelper'[i]),
               \A j \in 1..Len(toHelper') : i < j => ~IsScope(toHelper'[j])
        PROVE  toHelper'[i].groups = groups'
    <3>1. ASSUME NEW j \in 1..Len(toHelper), i + 1 < j PROVE ~IsScope(toHelper[j])
      <4>1. j - 1 \in 1..Len(toHelper') /\ toHelper'[j - 1] = toHelper[j] /\ i < j - 1  BY <1>3, <2>3, <3>1
      <4> QED  BY <2>5, <4>1
    <3> QED  BY <1>1, <2>1, <2>2, <2>5, <3>1 DEF ScopeIsSent, view
  <2> QED  BY <2>4, <2>5 DEF ScopeIsSent
<1>11. CASE HelperStarts
  <2> DEFINE c == [op |-> "scope", groups |-> scopeKey[1], frozen |-> FALSE]
  <2>1. toHelper' = <<c>> /\ UNCHANGED <<view, scopeKey>>  BY <1>11 DEF HelperStarts
  <2>2. IsScope(c) /\ c.groups = groups  BY <1>1 DEF IsScope
  <2> HIDE DEF c
  <2>3. 1..Len(<<c>>) = {1} /\ <<c>>[1] = c  OBVIOUS
  <2>4. ScopeIsSent'  BY <2>1, <2>2, <2>3 DEF ScopeIsSent, view
  <2> QED  BY <1>1, <1>2, <2>1, <2>4 DEF ScopeInv, view
<1>12. CASE HelperExits  BY <1>1, <1>2, <1>12 DEF HelperExits, ScopeInv, view
<1>13. CASE RestartBackend  BY <1>1, <1>2, <1>13 DEF RestartBackend, ScopeInv, view
<1>14. ASSUME NEW gs \in SUBSET Groups, Regroup(gs) \/ Pick(gs) \/ Reopen(gs) PROVE ScopeInv'
  <2>1. frozen \in BOOLEAN  BY <1>1 DEF TypeOK, NavOK
  <2>2. UNCHANGED <<scope, scopeLost, started>>  BY <1>14 DEF Regroup, Pick, Reopen, helper, host
  <2>3. CASE Regroup(gs) \/ Reopen(gs)  BY <1>4, <1>5, <2>1, <2>2, <2>3 DEF Regroup, Reopen
  <2>4. CASE Pick(gs)
    <3> DEFINE c == InspectCommand(frozen)
    <3>1. SetView(frozen, gs, <<>>, <<c>>)  BY <2>4 DEF Pick
    <3>2. c \in Commands /\ ~IsScope(c)  BY <1>7, <2>1
    <3> HIDE DEF c
    <3> QED  BY <1>4, <1>5, <1>6, <2>1, <2>2, <3>1, <3>2
  <2> QED  BY <1>14, <2>3, <2>4
<1>15. ASSUME NEW gs \in SUBSET Groups, SetView(FALSE, gs, Release, <<>>), CanFreeze,
              UNCHANGED <<scope, scopeLost, started>>
       PROVE  ScopeInv'
  <2> DEFINE c == FreezeCommand(FALSE)
  <2>1. c \in Commands  BY <1>1, <1>15, FreezeTyped DEF TypeOK
  <2>2. ~IsScope(c)  BY DEF FreezeCommand, IsScope
  <2>3. SetView(FALSE, gs, <<c>>, <<>>)  BY <1>15 DEF Release
  <2> HIDE DEF c
  <2> QED  BY <1>4, <1>5, <1>6, <1>15, <2>1, <2>2, <2>3
<1>16. ASSUME NEW gs \in SUBSET Groups, SwitchInstrument(gs) PROVE ScopeInv'
  <2>1. UNCHANGED <<scope, scopeLost, started>>  BY <1>16 DEF SwitchInstrument, helper, host
  <2> QED  BY <1>4, <1>5, <1>15, <1>16, <2>1 DEF SwitchInstrument
<1>17. CASE FreezeTimeout
  <2>1. groups \in SUBSET Groups  BY <1>1 DEF TypeOK, NavOK
  <2> QED  BY <1>15, <1>17, <2>1 DEF FreezeTimeout, helper, host
<1>18. CASE ReceiveFreeze
  <2>1. UNCHANGED <<scope, scopeLost, started>>  BY <1>18 DEF ReceiveFreeze, helper, host
  <2>2. groups \in SUBSET Groups /\ Head(fromHelper).frozen \in BOOLEAN
    BY <1>1, <1>18, ReceiveTyped, RecordTyped DEF ReceiveFreeze, TypeOK, NavOK
  <2>3. CASE Awaited(Head(fromHelper))
    <3>1. SetView(Head(fromHelper).frozen, groups, <<>>, <<>>)  BY <1>18, <2>3 DEF ReceiveFreeze
    <3> QED  BY <1>4, <1>5, <2>1, <2>2, <3>1
  <2>4. CASE ~Awaited(Head(fromHelper))  BY <1>8, <1>18, <2>1, <2>4 DEF ReceiveFreeze
  <2> QED  BY <2>3, <2>4
<1>19. CASE Toggle
  <2> DEFINE c == FreezeCommand(~frozen)
  <2>1. c \in Commands
    <3>1. c = FreezeCommand(TRUE) \/ c = FreezeCommand(FALSE)
      <4>1. ~frozen = TRUE \/ ~frozen = FALSE  BY <1>1 DEF TypeOK, NavOK
      <4> QED  BY <4>1
    <3>2. FreezeCommand(TRUE) \in Commands /\ FreezeCommand(FALSE) \in Commands
      BY <1>1, <1>19, FreezeTyped DEF Toggle, TypeOK
    <3> QED  BY <3>1, <3>2
  <2>2. ~IsScope(c)  BY DEF FreezeCommand, IsScope
  <2>3. Send(<<c>>) /\ UNCHANGED <<view, scopeKey, scope, scopeLost, started>>  BY <1>19 DEF Toggle, helper, host
  <2> HIDE DEF c
  <2> QED  BY <1>8, <2>1, <2>2, <2>3
<1>20. CASE InspectMore
  <2>1. frozen \in BOOLEAN  BY <1>1 DEF TypeOK, NavOK
  <2> QED  BY <1>7, <1>8, <1>20, <2>1 DEF InspectMore, helper, host
<1>21. ASSUME NEW sure \in BOOLEAN, ConfirmAction(sure) PROVE ScopeInv'
  <2> DEFINE c == [op |-> "audio-action", frozen |-> frozen]
  <2>1. c \in Commands /\ ~IsScope(c)  BY <1>1 DEF TypeOK, NavOK, Commands, IsScope
  <2>2. Send(<<c>>) \/ UNCHANGED toHelper  BY <1>21 DEF ConfirmAction
  <2>3. UNCHANGED <<view, scopeKey, scope, scopeLost, started>>  BY <1>21 DEF ConfirmAction, helper, host
  <2> HIDE DEF c
  <2> QED  BY <1>8, <2>1, <2>2, <2>3
<1>22. CASE ReceiveSnapshot
  <2>1. Send(<<InspectCommand(FALSE)>>) \/ UNCHANGED toHelper  BY <1>22 DEF ReceiveSnapshot
  <2>2. UNCHANGED <<view, scopeKey, scope, scopeLost, started>>  BY <1>22 DEF ReceiveSnapshot, helper
  <2> QED  BY <1>7, <1>8, <2>1, <2>2
<1>23. CASE RequestAction \/ ReceiveScope \/ ReceiveDetail \/ ReceiveError
  BY <1>8, <1>23 DEF RequestAction, ReceiveScope, ReceiveDetail, ReceiveError, helper, host
<1>24. CASE Sample \/ SampleFails  BY <1>8, <1>24 DEF Sample, SampleFails, host
<1>25. CASE DoFreeze \/ DoInspect \/ DoAction
  <2>1. toHelper # <<>> /\ toHelper' = Tail(toHelper) /\ ~IsScope(Head(toHelper))
    BY <1>25 DEF DoFreeze, DoInspect, DoAction, Command, IsScope
  <2>2. UNCHANGED <<view, scopeKey, scope, scopeLost, started>>
    BY <1>25 DEF DoFreeze, DoInspect, DoAction, helper, host
  <2> QED  BY <1>9, <2>1, <2>2
<1>26. CASE UNCHANGED vars  BY <1>8, <1>26 DEF vars, helper, host
<1>27. CASE Discard
  <2>1. toHelper # <<>> /\ toHelper' = Tail(toHelper) /\ UNCHANGED <<view, scopeKey, scope, started>>
    BY <1>27 DEF Discard, host
  <2>2. IF IsScope(Head(toHelper)) THEN scopeLost' ELSE scopeLost' = scopeLost
    BY <1>1, <1>27 DEF Discard, IsScope, TypeOK, HelperOK
  <2> QED  BY <1>9, <2>1, <2>2
<1> QED  BY <1>10, <1>11, <1>12, <1>13, <1>14, <1>16, <1>17, <1>18, <1>19, <1>20, <1>21, <1>22, <1>23,
            <1>24, <1>25, <1>26, <1>27 DEF Next

\* A helper that has read every command details the groups the view asks for, also one that was
\* started after another was lost, unless it discarded the last scope it read for its rate.
THEOREM ScopeArrives == Spec => []ScopeDelivered
<1>1. ScopeInv => ScopeDelivered
  <2> SUFFICES ASSUME ScopeInv, started, ~scopeLost, ~InFlight("scope", "scope-result") PROVE scope = groups
    BY DEF ScopeDelivered
  <2>1. DOMAIN toHelper = 1..Len(toHelper)  BY DEF ScopeInv, TypeOK, ToHelperOK
  <2>2. \A i \in 1..Len(toHelper) : ~IsScope(toHelper[i])  BY <2>1 DEF InFlight, IsScope
  <2> QED  BY <2>2 DEF ScopeInv, ScopeIsSent
<1> QED  BY <1>1, InitScopeInv, StepScopeInv, PTL DEF Spec

-----------------------------------------------------------------------------
(* The scope that a frozen view shows. *)

Scopes == {c \in Commands : c.op = "scope"}

FrozenScopes(gs) == {c \in Scopes : c.frozen /\ c.groups = gs}

Rescopes == {r \in Records : r.type = "scope-result"}

Rescoped(gs) == {r \in Rescopes : r.frame.scope = gs}

NoneOf(q, T) == \A i \in 1..Len(q) : q[i] \notin T

\* The last element of q that is in T, if there is one, is in G.
LastIs(q, T, G) ==
  \A i \in 1..Len(q) : q[i] \in T /\ (\A j \in 1..Len(q) : i < j => q[j] \notin T) => q[i] \in G

\* A view that is frozen on a pinned generation asked for its groups last, was answered with them
\* last, or shows them, unless what it asked last was discarded.
ShownInv ==
  frozen /\ started /\ pinned # NoFrame =>
    /\ LastIs(toHelper, Scopes, FrozenScopes(groups))
    /\ ~scopeLost /\ NoneOf(toHelper, Scopes) =>
         /\ LastIs(fromHelper, Rescopes, Rescoped(groups))
         /\ NoneOf(fromHelper, Rescopes) => display.scope = groups

\* Other elements at the end of a queue leave the last one of a set where it is.
LEMMA LastExtends ==
  ASSUME NEW S, NEW q \in Seq(S), NEW r \in Seq(S), NEW T, NEW G,
         Len(r) >= Len(q), \A i \in 1..Len(q) : r[i] = q[i],
         \A i \in Len(q) + 1 .. Len(r) : r[i] \notin T
  PROVE  /\ LastIs(q, T, G) => LastIs(r, T, G)
         /\ NoneOf(q, T) <=> NoneOf(r, T)
<1>1. Len(q) \in Nat /\ Len(r) \in Nat  OBVIOUS
<1>2. \A i \in 1..Len(r) : (i \in 1..Len(q) /\ r[i] = q[i]) \/ r[i] \notin T  BY <1>1
<1>3. 1..Len(q) \subseteq 1..Len(r)  BY <1>1
<1>4. NoneOf(q, T) <=> NoneOf(r, T)  BY <1>2, <1>3 DEF NoneOf
<1>5. ASSUME LastIs(q, T, G), NEW i \in 1..Len(r), r[i] \in T, \A j \in 1..Len(r) : i < j => r[j] \notin T
      PROVE  r[i] \in G
  <2>1. i \in 1..Len(q) /\ r[i] = q[i]  BY <1>2, <1>5
  <2>2. \A j \in 1..Len(q) : i < j => q[j] \notin T  BY <1>3, <1>5
  <2> QED  BY <1>5, <2>1, <2>2 DEF LastIs
<1> QED  BY <1>4, <1>5 DEF LastIs

\* What is read from a queue is its last element of a set, or leaves it where it is.
LEMMA LastReads ==
  ASSUME NEW S, NEW q \in Seq(S), q # <<>>, NEW T, NEW G, LastIs(q, T, G)
  PROVE  /\ LastIs(Tail(q), T, G)
         /\ Head(q) \in T /\ NoneOf(Tail(q), T) => Head(q) \in G
         /\ Head(q) \notin T /\ NoneOf(Tail(q), T) => NoneOf(q, T)
<1>1. /\ 1 \in 1..Len(q) /\ Head(q) = q[1] /\ Len(Tail(q)) = Len(q) - 1
      /\ \A i \in 1..Len(Tail(q)) : i + 1 \in 1..Len(q) /\ Tail(q)[i] = q[i + 1]
  BY TailShifts
<1>2. ASSUME NEW j \in 1..Len(q), j # 1 PROVE j - 1 \in 1..Len(Tail(q)) /\ Tail(q)[j - 1] = q[j]
  <2>1. Len(q) \in Nat /\ j - 1 \in 1..Len(Tail(q)) /\ (j - 1) + 1 = j  BY <1>1, <1>2
  <2> QED  BY <1>1, <2>1
<1>3. ASSUME NEW i \in 1..Len(Tail(q)), Tail(q)[i] \in T, \A j \in 1..Len(Tail(q)) : i < j => Tail(q)[j] \notin T
      PROVE  Tail(q)[i] \in G
  <2>1. ASSUME NEW j \in 1..Len(q), i + 1 < j PROVE q[j] \notin T
    <3>1. j # 1 /\ i < j - 1  BY <2>1, <1>1
    <3> QED  BY <1>2, <1>3, <3>1
  <2>2. i + 1 \in 1..Len(q) /\ Tail(q)[i] = q[i + 1]  BY <1>1
  <2> QED  BY <1>3, <2>1, <2>2 DEF LastIs
<1>4. ASSUME Head(q) \in T, NoneOf(Tail(q), T) PROVE Head(q) \in G
  <2>1. \A j \in 1..Len(q) : 1 < j => q[j] \notin T  BY <1>2, <1>4 DEF NoneOf
  <2> QED  BY <1>1, <1>4, <2>1 DEF LastIs
<1>5. ASSUME Head(q) \notin T, NoneOf(Tail(q), T) PROVE NoneOf(q, T)
  BY <1>1, <1>2, <1>5 DEF NoneOf
<1> QED  BY <1>3, <1>4, <1>5 DEF LastIs

\* An element of both sets, with others behind it, is the last one.
LEMMA LastWritten ==
  ASSUME NEW S, NEW r \in Seq(S), NEW T, NEW G, NEW k \in 1..Len(r), r[k] \in T, r[k] \in G,
         \A j \in 1..Len(r) : k < j => r[j] \notin T
  PROVE  LastIs(r, T, G) /\ ~NoneOf(r, T)
<1>1. ASSUME NEW i \in 1..Len(r), r[i] \in T, \A j \in 1..Len(r) : i < j => r[j] \notin T PROVE r[i] \in G
  <2>1. i = k \/ i < k \/ k < i  OBVIOUS
  <2> QED  BY <1>1, <2>1
<1> QED  BY <1>1 DEF LastIs, NoneOf

\* A record is added to the pipe.
LEMMA LastAppended ==
  ASSUME NEW S, NEW q \in Seq(S), NEW e \in S, NEW T, NEW G
  PROVE  /\ e \in T /\ e \in G => LastIs(Append(q, e), T, G) /\ ~NoneOf(Append(q, e), T)
         /\ e \notin T => /\ LastIs(q, T, G) => LastIs(Append(q, e), T, G)
                          /\ NoneOf(q, T) <=> NoneOf(Append(q, e), T)
<1> DEFINE r == Append(q, e)
<1>1. /\ r \in Seq(S) /\ Len(r) = Len(q) + 1 /\ Len(q) \in Nat
      /\ \A i \in 1..Len(q) : r[i] = q[i]
      /\ r[Len(q) + 1] = e
  BY AppendProperties
<1> HIDE DEF r
<1>2. ASSUME e \in T, e \in G PROVE LastIs(r, T, G) /\ ~NoneOf(r, T)
  <2>1. Len(q) + 1 \in 1..Len(r) /\ \A j \in 1..Len(r) : ~(Len(q) + 1 < j)  BY <1>1
  <2> QED  BY <1>1, <1>2, <2>1, LastWritten
<1>3. ASSUME e \notin T
      PROVE  (LastIs(q, T, G) => LastIs(r, T, G)) /\ (NoneOf(q, T) <=> NoneOf(r, T))
  <2>1. \A i \in Len(q) + 1 .. Len(r) : r[i] \notin T
    <3>1. \A i \in Len(q) + 1 .. Len(r) : i = Len(q) + 1  BY <1>1
    <3> QED  BY <1>1, <1>3, <3>1
  <2> QED  BY <1>1, <2>1, LastExtends
<1> QED  BY <1>2, <1>3 DEF r

\* Nothing about the scope is written, or something else is read.
ToKept ==
  \/ /\ toHelper' \in Seq(Commands) /\ Len(toHelper') >= Len(toHelper)
     /\ \A i \in 1..Len(toHelper) : toHelper'[i] = toHelper[i]
     /\ \A i \in Len(toHelper) + 1 .. Len(toHelper') : toHelper'[i] \notin Scopes
  \/ toHelper # <<>> /\ toHelper' = Tail(toHelper) /\ Head(toHelper) \notin Scopes

FromKept ==
  \/ fromHelper' = fromHelper
  \/ \E r \in Records : r \notin Rescopes /\ fromHelper' = Append(fromHelper, r)
  \/ fromHelper # <<>> /\ fromHelper' = Tail(fromHelper) /\ Head(fromHelper) \notin Rescopes

\* The last scope stays the last one.
LEMMA ToHelperKept ==
  ASSUME TypeOK, ToKept, NEW G
  PROVE  /\ LastIs(toHelper, Scopes, G) => LastIs(toHelper', Scopes, G)
         /\ NoneOf(toHelper', Scopes) => NoneOf(toHelper, Scopes)
<1>1. toHelper \in Seq(Commands)  BY DEF TypeOK, ToHelperOK
<1>2. CASE /\ toHelper' \in Seq(Commands) /\ Len(toHelper') >= Len(toHelper)
           /\ \A i \in 1..Len(toHelper) : toHelper'[i] = toHelper[i]
           /\ \A i \in Len(toHelper) + 1 .. Len(toHelper') : toHelper'[i] \notin Scopes
  BY <1>1, <1>2, LastExtends
<1>3. CASE toHelper # <<>> /\ toHelper' = Tail(toHelper) /\ Head(toHelper) \notin Scopes
  <2>1. LastIs(toHelper, Scopes, G) => LastIs(toHelper', Scopes, G)  BY <1>1, <1>3, LastReads
  <2>2. LastIs(toHelper, Scopes, Scopes)  BY DEF LastIs
  <2> QED  BY <1>1, <1>3, <2>1, <2>2, LastReads
<1> QED  BY <1>2, <1>3 DEF ToKept

\* The last answer stays the last one.
LEMMA FromHelperKept ==
  ASSUME TypeOK, FromKept, NEW G
  PROVE  /\ LastIs(fromHelper, Rescopes, G) => LastIs(fromHelper', Rescopes, G)
         /\ NoneOf(fromHelper', Rescopes) => NoneOf(fromHelper, Rescopes)
<1>1. fromHelper \in Seq(Records)  BY DEF TypeOK, FromHelperOK
<1>2. CASE \E r \in Records : r \notin Rescopes /\ fromHelper' = Append(fromHelper, r)
  BY <1>1, <1>2, LastAppended
<1>3. CASE fromHelper # <<>> /\ fromHelper' = Tail(fromHelper) /\ Head(fromHelper) \notin Rescopes
  <2>1. LastIs(fromHelper, Rescopes, G) => LastIs(fromHelper', Rescopes, G)  BY <1>1, <1>3, LastReads
  <2>2. LastIs(fromHelper, Rescopes, Rescopes)  BY DEF LastIs
  <2> QED  BY <1>1, <1>3, <2>1, <2>2, LastReads
<1>4. CASE fromHelper' = fromHelper  BY <1>4
<1> QED  BY <1>2, <1>3, <1>4 DEF FromKept

\* So the invariant is kept when nothing about the scope happens.
LEMMA ShownKept ==
  ASSUME TypeOK, ShownInv, ToKept, FromKept, frozen' = frozen, groups' = groups, pinned' = pinned,
         scopeLost' = scopeLost, started' => started, display'.scope = display.scope
  PROVE  ShownInv'
<1> SUFFICES ASSUME frozen, started, pinned # NoFrame
             PROVE  /\ LastIs(toHelper', Scopes, FrozenScopes(groups))
                    /\ ~scopeLost /\ NoneOf(toHelper', Scopes) =>
                         /\ LastIs(fromHelper', Rescopes, Rescoped(groups))
                         /\ NoneOf(fromHelper', Rescopes) => display'.scope = groups
  <2>1. FrozenScopes(groups)' = FrozenScopes(groups') /\ Rescoped(groups)' = Rescoped(groups')
        /\ Scopes' = Scopes /\ Rescopes' = Rescopes /\ NoFrame' = NoFrame
    BY DEF FrozenScopes, Rescoped, Scopes, Rescopes
  <2> QED  BY DEF ShownInv
<1>1. /\ LastIs(toHelper, Scopes, FrozenScopes(groups))
      /\ ~scopeLost /\ NoneOf(toHelper, Scopes) =>
           /\ LastIs(fromHelper, Rescopes, Rescoped(groups))
           /\ NoneOf(fromHelper, Rescopes) => display.scope = groups
  BY DEF ShownInv
<1> QED  BY <1>1, ToHelperKept, FromHelperKept

\* A frozen view that changes its groups, and one that becomes frozen, asks for them.
LEMMA ViewAsks ==
  ASSUME ScopeInv, ToHelperOK', started, NEW gs \in SUBSET Groups, NEW after \in Seq(Commands),
         SetView(TRUE, gs, <<>>, after), \A i \in 1..Len(after) : after[i] \notin Scopes
  PROVE  \/ frozen /\ groups' = groups /\ ToKept
         \/ LastIs(toHelper', Scopes, FrozenScopes(groups')) /\ ~NoneOf(toHelper', Scopes)
<1> DEFINE sc == ScopeCommand(TRUE, gs)
           n == Len(toHelper)
           k == Len(sc)
<1>1. ToHelperOK /\ toHelper \in Seq(Commands) /\ n \in Nat /\ Len(after) \in Nat
      /\ scopeKey = <<groups, frozen>> /\ groups' = gs
  BY DEF ScopeInv, TypeOK, ToHelperOK, SetView
<1>2. toHelper' = IF started THEN toHelper \o (<<>> \o sc \o after) ELSE toHelper
  BY DEF SetView, Send
<1>3. <<>> \in Seq(Commands) /\ Len(<<>>) = 0  OBVIOUS
<1>4. /\ Len(toHelper') = n + k + Len(after)
      /\ \A i \in 1..n : toHelper'[i] = toHelper[i]
      /\ \A i \in n + 1 .. n + k : toHelper'[i] = sc[i - n]
      /\ \A i \in n + k + 1 .. Len(toHelper') : toHelper'[i] = after[i - n - k]
  <2>1. /\ Len(toHelper') = (Len(toHelper) + Len(<<>>)) + k + Len(after)
        /\ \A i \in 1..Len(toHelper) : toHelper'[i] = toHelper[i]
        /\ \A i \in (Len(toHelper) + Len(<<>>)) + 1 .. (Len(toHelper) + Len(<<>>)) + k :
             toHelper'[i] = sc[i - (Len(toHelper) + Len(<<>>))]
        /\ \A i \in (Len(toHelper) + Len(<<>>)) + k + 1 .. Len(toHelper') :
             toHelper'[i] = after[i - (Len(toHelper) + Len(<<>>)) - k]
    BY <1>1, <1>3, ViewSends
  <2>2. Len(toHelper) + Len(<<>>) = n  BY <1>1, <1>3
  <2> QED  BY <2>1, <2>2
<1>5. sc \in Seq(Commands)  BY ScopeTyped
<1>6. toHelper' \in Seq(Commands)  BY DEF ToHelperOK
<1>7. CASE scopeKey = <<gs, TRUE>>
  <2>1. <<groups, frozen>> = <<gs, TRUE>>  BY <1>1, <1>7
  <2>2. groups' = groups /\ frozen = TRUE  BY <1>1, <2>1
  <2>3. sc = <<>>  BY <1>7 DEF ScopeCommand
  <2>4. k = 0  BY <1>3, <2>3
  <2> HIDE DEF sc, k
  <2>5. ASSUME NEW i \in n + 1 .. Len(toHelper') PROVE toHelper'[i] \notin Scopes
    <3>1. i \in n + k + 1 .. Len(toHelper') /\ i - n - k \in 1..Len(after)  BY <1>1, <1>4, <2>4
    <3> QED  BY <1>4, <3>1
  <2>6. Len(toHelper') >= Len(toHelper)  BY <1>1, <1>4, <2>4
  <2> QED  BY <1>1, <1>4, <1>6, <2>2, <2>5, <2>6 DEF ToKept
<1>8. CASE scopeKey # <<gs, TRUE>>
  <2> DEFINE c == [op |-> "scope", groups |-> gs, frozen |-> TRUE]
  <2>1. sc = <<c>>  BY <1>8 DEF ScopeCommand
  <2>2. c \in Scopes /\ c \in FrozenScopes(groups')  BY <1>1 DEF Scopes, FrozenScopes, Commands
  <2> HIDE DEF c, sc
  <2>3. k = 1 /\ sc[1] = c  BY <2>1
  <2> HIDE DEF k
  <2>4. n + 1 \in 1..Len(toHelper') /\ n + 1 \in n + 1 .. n + k /\ (n + 1) - n = 1  BY <1>1, <1>4, <2>3
  <2>5. toHelper'[n + 1] = c  BY <1>4, <2>3, <2>4
  <2>6. ASSUME NEW j \in 1..Len(toHelper'), n + 1 < j PROVE toHelper'[j] \notin Scopes
    <3>1. j \in n + k + 1 .. Len(toHelper') /\ j - n - k \in 1..Len(after)  BY <1>1, <1>4, <2>3, <2>6
    <3> QED  BY <1>4, <3>1
  <2> QED  BY <1>6, <2>2, <2>4, <2>5, <2>6, LastWritten
<1> QED  BY <1>7, <1>8

\* Every step keeps it: a frozen view has only thaws under way, so what it is frozen on stays or is lost.
LEMMA StepShownInv == FreezeInv /\ ScopeInv /\ ShownInv /\ [Next]_vars => ShownInv'
<1> SUFFICES ASSUME FreezeInv, ScopeInv, ShownInv, [Next]_vars, frozen', started', pinned' # NoFrame
             PROVE  ShownInv'
  BY DEF ShownInv
<1>1. /\ TypeOK /\ ToHelperOK /\ FromHelperOK /\ OnlyThaws /\ scopeKey = <<groups, frozen>>
      /\ toHelper \in Seq(Commands) /\ fromHelper \in Seq(Records)
      /\ frozen \in BOOLEAN /\ groups \in SUBSET Groups
  BY DEF ScopeInv, FreezeInv, TypeOK, ToHelperOK, FromHelperOK, NavOK
<1>2. TypeOK' /\ ToHelperOK' /\ toHelper' \in Seq(Commands)  BY <1>1, TypeStep DEF TypeOK, ToHelperOK
<1>3. ASSUME NEW c \in Commands, c.op # "scope", Send(<<c>>) PROVE ToKept
  BY <1>1, <1>2, <1>3, SendOne DEF ToKept, Scopes
<1>4. ASSUME UNCHANGED toHelper PROVE ToKept
  <2>1. Len(toHelper) \in Nat /\ Len(toHelper) + 1 .. Len(toHelper) = {}  BY <1>1
  <2> QED  BY <1>1, <1>4, <2>1 DEF ToKept
<1>5. ASSUME NEW op, Command(op), op # "scope" PROVE ToKept
  BY <1>5 DEF Command, ToKept, Scopes
<1>6. ASSUME NEW r \in Records, r.type # "scope-result", Answer(r) PROVE FromKept
  BY <1>6 DEF Answer, FromKept, Rescopes
<1>7. ASSUME NEW type, Receive(type), type # "scope-result" PROVE FromKept
  BY <1>7 DEF Receive, FromKept, Rescopes
<1>8. UNCHANGED fromHelper => FromKept  BY DEF FromKept
<1>9. InspectCommand(TRUE) \in Commands /\ InspectCommand(TRUE).op = "inspect"
      /\ InspectCommand(FALSE) \in Commands /\ InspectCommand(FALSE).op = "inspect"
  BY InspectTyped DEF InspectCommand
<1>10. /\ <<>> \in Seq(Commands) /\ \A i \in 1..Len(<<>>) : <<>>[i] \notin Scopes
       /\ \A c \in Commands : <<c>> \in Seq(Commands) /\ \A i \in 1..Len(<<c>>) : <<c>>[i] = c
  OBVIOUS
<1>11. ASSUME NEW gs \in SUBSET Groups, NEW after \in Seq(Commands), SetView(TRUE, gs, <<>>, after),
              \A i \in 1..Len(after) : after[i] \notin Scopes,
              frozen => FromKept /\ display' = display,
              pinned' = pinned, scopeLost' = scopeLost, started' = started
       PROVE  ShownInv'
  <2>1. started  BY <1>11
  <2>2. frozen' = TRUE  BY <1>11 DEF SetView
  <2>3. CASE frozen /\ groups' = groups /\ ToKept
    BY <1>1, <1>11, <2>2, <2>3, ShownKept
  <2>4. CASE LastIs(toHelper', Scopes, FrozenScopes(groups')) /\ ~NoneOf(toHelper', Scopes)
    BY <2>4 DEF ShownInv, Scopes, FrozenScopes
  <2> QED  BY <1>2, <1>11, <2>1, <2>3, <2>4, ViewAsks
<1>12. ASSUME NEW gs \in SUBSET Groups, Regroup(gs) PROVE ShownInv'
  <2>1. SetView(TRUE, gs, <<>>, <<>>)  BY <1>1, <1>12 DEF Regroup, SetView
  <2> QED  BY <1>8, <1>10, <1>11, <1>12, <2>1 DEF Regroup, helper, host
<1>13. ASSUME NEW gs \in SUBSET Groups, Pick(gs) PROVE ShownInv'
  <2> DEFINE c == InspectCommand(TRUE)
  <2>1. SetView(TRUE, gs, <<>>, <<c>>)
    <3>1. frozen = TRUE  BY <1>1, <1>13 DEF Pick, SetView
    <3> QED  BY <1>13, <3>1 DEF Pick
  <2>2. c \in Commands /\ c \notin Scopes  BY <1>9 DEF Scopes
  <2> HIDE DEF c
  <2>3. <<c>> \in Seq(Commands) /\ \A i \in 1..Len(<<c>>) : <<c>>[i] \notin Scopes  BY <1>10, <2>2
  <2> QED  BY <1>8, <1>11, <1>13, <2>1, <2>3 DEF Pick, helper, host
<1>14. ASSUME NEW gs \in SUBSET Groups, SwitchInstrument(gs) \/ Reopen(gs) PROVE FALSE
  BY <1>14 DEF SwitchInstrument, Reopen, SetView
<1>15. CASE FreezeTimeout  BY <1>15 DEF FreezeTimeout, SetView
<1>16. CASE ReceiveFreeze
  <2>1. /\ Receive("freeze-result") /\ FromKept /\ 1 \in 1..Len(fromHelper) /\ Head(fromHelper) = fromHelper[1]
        /\ IsResult(Head(fromHelper)) /\ Head(fromHelper).frozen \in BOOLEAN
        /\ pinned' = pinned /\ scopeLost' = scopeLost /\ started' = started
    <3>1. Receive("freeze-result")  BY <1>16 DEF ReceiveFreeze
    <3> QED  BY <1>1, <1>7, <1>16, <3>1, ReceiveTyped, RecordTyped, TailShifts DEF ReceiveFreeze, Receive, IsResult, helper, host
  <2>2. CASE Awaited(Head(fromHelper))
    <3>1. SetView(Head(fromHelper).frozen, groups, <<>>, <<>>)  BY <1>16, <2>2 DEF ReceiveFreeze
    <3>2. Head(fromHelper).frozen = TRUE  BY <2>1, <3>1 DEF SetView
    <3>3. ~frozen  BY <1>1, <2>1, <3>2 DEF OnlyThaws
    <3> QED  BY <1>1, <1>10, <1>11, <2>1, <3>1, <3>2, <3>3
  <2>3. CASE ~Awaited(Head(fromHelper))
    <3>1. UNCHANGED <<view, scopeKey, toHelper, display>>  BY <1>16, <2>3 DEF ReceiveFreeze
    <3> QED  BY <1>1, <1>4, <2>1, <3>1, ShownKept DEF view
  <2> QED  BY <2>2, <2>3
<1>17. CASE Toggle
  <2> DEFINE c == FreezeCommand(~frozen)
  <2>1. frozen = TRUE /\ Send(<<c>>)  BY <1>1, <1>17 DEF Toggle, view
  <2>2. c \in Commands /\ c.op = "freeze"
    <3>1. c = FreezeCommand(FALSE)  BY <2>1
    <3> QED  BY <1>1, <1>17, <3>1, FreezeTyped DEF Toggle, TypeOK, FreezeCommand
  <2>3. ToKept  BY <1>3, <2>1, <2>2
  <2> QED  BY <1>1, <1>8, <1>17, <2>3, ShownKept DEF Toggle, view, shown, helper, host
<1>18. CASE InspectMore
  <2>1. Send(<<InspectCommand(TRUE)>>)
    <3>1. frozen = TRUE  BY <1>1, <1>18 DEF InspectMore, view
    <3> QED  BY <1>18, <3>1 DEF InspectMore
  <2>2. ToKept  BY <1>3, <1>9, <2>1
  <2> QED  BY <1>1, <1>8, <1>18, <2>2, ShownKept DEF InspectMore, view, helper, host
<1>19. ASSUME NEW sure \in BOOLEAN, ConfirmAction(sure) PROVE ShownInv'
  <2> DEFINE c == [op |-> "audio-action", frozen |-> frozen]
  <2>1. c \in Commands /\ c.op = "audio-action"  BY <1>1 DEF Commands
  <2>2. Send(<<c>>) \/ UNCHANGED toHelper  BY <1>19 DEF ConfirmAction
  <2> HIDE DEF c
  <2>3. ToKept  BY <1>3, <1>4, <2>1, <2>2
  <2> QED  BY <1>1, <1>8, <1>19, <2>3, ShownKept DEF ConfirmAction, view, shown, helper, host
<1>20. CASE ReceiveSnapshot
  <2>1. Send(<<InspectCommand(FALSE)>>) \/ UNCHANGED toHelper  BY <1>20 DEF ReceiveSnapshot
  <2>2. ToKept  BY <1>3, <1>4, <1>9, <2>1
  <2>3. FromKept  BY <1>7, <1>20 DEF ReceiveSnapshot
  <2>4. frozen /\ display' = display  BY <1>20 DEF ReceiveSnapshot, view
  <2> QED  BY <1>1, <1>20, <2>2, <2>3, <2>4, ShownKept DEF ReceiveSnapshot, view, helper
<1>21. CASE ReceiveDetail \/ ReceiveError
  <2>1. FromKept  BY <1>7, <1>21 DEF ReceiveDetail, ReceiveError
  <2>2. ToKept  BY <1>4, <1>21 DEF ReceiveDetail, ReceiveError
  <2> QED  BY <1>1, <1>21, <2>1, <2>2, ShownKept DEF ReceiveDetail, ReceiveError, view, shown, helper, host
<1>22. CASE RequestAction
  <2>1. ToKept  BY <1>4, <1>22 DEF RequestAction
  <2> QED  BY <1>1, <1>8, <1>22, <2>1, ShownKept DEF RequestAction, view, shown, helper, host
<1>23. CASE Sample \/ SampleFails
  <2>1. ToKept  BY <1>4, <1>23 DEF Sample, SampleFails
  <2>2. \E r \in Records : r.type # "scope-result" /\ Answer(r)
    <3>1. CASE Sample
      <4> DEFINE r == [type |-> "snapshot", frame |-> full']
      <4>1. full' \in Frames  BY <1>2 DEF TypeOK, HelperOK
      <4> QED  BY <3>1, <4>1 DEF Sample, Records
    <3>2. CASE SampleFails  BY <3>2 DEF SampleFails, Records
    <3> QED  BY <1>23, <3>1, <3>2
  <2> QED  BY <1>1, <1>6, <1>23, <2>1, <2>2, ShownKept DEF Sample, SampleFails, view, shown, host
<1>24. CASE DoInspect \/ DoAction
  <2>1. ToKept  BY <1>5, <1>24 DEF DoInspect, DoAction
  <2>2. FromKept
    <3>1. CASE DoInspect
      <4> DEFINE r == [type |-> "detail", detail |-> Inspected(Head(toHelper).frozen)]
      <4>1. Answer(r)  BY <3>1 DEF DoInspect
      <4>2. fromHelper' = Append(fromHelper, r) /\ r.type = "detail"  BY <4>1 DEF Answer
      <4>3. FromHelperOK'  BY <1>2 DEF TypeOK
      <4>4. r \in Records
        <5>1. Inspected(Head(toHelper).frozen) \in Details
          BY <1>1, NoFrameTyped DEF TypeOK, HelperOK, Inspected, Details, Frames
        <5> QED  BY <5>1 DEF Records
      <4> QED  BY <1>6, <4>1, <4>2, <4>4
    <3>2. CASE DoAction
      <4>1. [type |-> "error"] \in Records  BY DEF Records
      <4> QED  BY <1>6, <1>8, <3>2, <4>1 DEF DoAction
    <3> QED  BY <1>24, <3>1, <3>2
  <2> QED  BY <1>1, <1>24, <2>1, <2>2, ShownKept DEF DoInspect, DoAction, view, shown, host, helper
<1>25. CASE DoFreeze
  <2>1. 1 \in 1..Len(toHelper) /\ Head(toHelper) = toHelper[1] /\ IsFreeze(Head(toHelper))
    BY <1>1, <1>25, TailShifts DEF DoFreeze, Command, IsFreeze
  <2>2. frozen  BY <1>25 DEF DoFreeze, view
  <2>3. ~Head(toHelper).state  BY <1>1, <2>1, <2>2 DEF OnlyThaws
  <2>4. pinned' = NoFrame  BY <1>25, <2>3 DEF DoFreeze
  <2> QED  BY <2>4
<1>26. CASE RestartBackend \/ HelperExits  BY <1>26 DEF RestartBackend, HelperExits
<1>27. CASE HelperStarts  BY <1>27 DEF HelperStarts, FreshHelper
<1>28. CASE UNCHANGED vars
  <2>1. ToKept  BY <1>4, <1>28 DEF vars
  <2> QED  BY <1>1, <1>8, <1>28, <2>1, ShownKept DEF vars, view, shown, host, helper
<1>29. CASE DoScope
  <2> DEFINE c == Head(toHelper)
             r == [type |-> "scope-result", frame |-> Scoped(c.groups)]
  <2>1. /\ toHelper # <<>> /\ toHelper' = Tail(toHelper) /\ c \in Commands /\ c.op = "scope"
        /\ frozen' = frozen /\ groups' = groups /\ pinned' = pinned /\ started' = started /\ display' = display
    BY <1>1, <1>29, CommandTyped DEF DoScope, Command, view, host, shown
  <2>2. c \in Scopes  BY <2>1 DEF Scopes
  <2>3. c.frozen => fromHelper' = Append(fromHelper, r)  BY <1>29, <2>1 DEF DoScope, Answer
  <2>4. c.groups \in SUBSET Groups  BY <2>1, OperandTyped
  <2>5. r \in Rescopes /\ r.frame.scope = c.groups /\ r \in Records
    BY <1>1, <2>4 DEF Rescopes, Records, Scoped, Frames, TypeOK, HelperOK
  <2> HIDE DEF c, r
  <2>6. LastIs(toHelper, Scopes, FrozenScopes(groups))  BY <2>1 DEF ShownInv
  <2>7. LastIs(toHelper', Scopes, FrozenScopes(groups)) /\ (NoneOf(toHelper', Scopes) => c \in FrozenScopes(groups))
    BY <1>1, <2>1, <2>2, <2>6, LastReads DEF c
  <2>8. ASSUME NoneOf(toHelper', Scopes)
        PROVE  LastIs(fromHelper', Rescopes, Rescoped(groups)) /\ ~NoneOf(fromHelper', Rescopes)
    <3>1. c.frozen /\ r \in Rescoped(groups)  BY <2>5, <2>7, <2>8 DEF FrozenScopes, Rescoped
    <3> QED  BY <1>1, <2>3, <2>5, <3>1, LastAppended
  <2> QED  BY <2>1, <2>7, <2>8 DEF ShownInv, Scopes, FrozenScopes, Rescopes, Rescoped
<1>30. CASE ReceiveScope
  <2> DEFINE r == Head(fromHelper)
  <2>1. /\ fromHelper # <<>> /\ fromHelper' = Tail(fromHelper) /\ r \in Records /\ r.type = "scope-result"
        /\ frozen' = frozen /\ groups' = groups /\ pinned' = pinned /\ started' = started
        /\ scopeLost' = scopeLost /\ toHelper' = toHelper /\ display' = r.frame
    BY <1>1, <1>30, ReceiveTyped DEF ReceiveScope, Receive, view, host, helper
  <2>2. r \in Rescopes  BY <2>1 DEF Rescopes
  <2> HIDE DEF r
  <2>3. /\ LastIs(toHelper, Scopes, FrozenScopes(groups))
        /\ ~scopeLost /\ NoneOf(toHelper, Scopes) => LastIs(fromHelper, Rescopes, Rescoped(groups))
    BY <2>1 DEF ShownInv
  <2>4. ASSUME ~scopeLost, NoneOf(toHelper, Scopes)
        PROVE  /\ LastIs(fromHelper', Rescopes, Rescoped(groups))
               /\ NoneOf(fromHelper', Rescopes) => display'.scope = groups
    BY <1>1, <2>1, <2>2, <2>3, <2>4, LastReads DEF r, Rescoped
  <2> QED  BY <2>1, <2>3, <2>4 DEF ShownInv, Scopes, FrozenScopes, Rescopes, Rescoped
<1>31. CASE Discard
  <2>1. /\ toHelper # <<>> /\ toHelper' = Tail(toHelper) /\ Answer([type |-> "error"])
        /\ UNCHANGED <<frozen, groups, pinned, started, display>>
    BY <1>31 DEF Discard, view, shown, host
  <2>2. CASE Head(toHelper) \in Scopes
    <3>1. scopeLost'  BY <1>31, <2>2 DEF Discard, Scopes
    <3>2. LastIs(toHelper', Scopes, FrozenScopes(groups))  BY <1>1, <2>1, LastReads DEF ShownInv
    <3> QED  BY <2>1, <3>1, <3>2 DEF ShownInv, Scopes, FrozenScopes, Rescopes, Rescoped
  <2>3. CASE Head(toHelper) \notin Scopes
    <3>1. Head(toHelper) \in Commands  BY <1>1, <2>1
    <3>2. scopeLost' = scopeLost  BY <1>1, <1>31, <2>3, <3>1 DEF Discard, Scopes, TypeOK, HelperOK
    <3>3. ToKept  BY <2>1, <2>3 DEF ToKept
    <3>4. FromKept  BY <1>6, <2>1, RecordsMade
    <3> QED  BY <1>1, <2>1, <3>2, <3>3, <3>4, ShownKept
  <2> QED  BY <2>2, <2>3
<1> QED  BY <1>12, <1>13, <1>14, <1>15, <1>16, <1>17, <1>18, <1>19, <1>20, <1>21, <1>22, <1>23, <1>24, <1>25,
            <1>26, <1>27, <1>28, <1>29, <1>30, <1>31 DEF Next

\* A frozen view of which nothing is under way shows the groups it asked for last, for any groups,
\* requests and helpers lost, and pipes of any length, unless the last scope that the helper read
\* was discarded for its rate.
THEOREM FrozenScopeArrives == Spec => []FrozenScopeShown
<1>1. Init => ShownInv  BY DEF Init, ShownInv
<1>2. FreezeInv /\ ScopeInv /\ ShownInv => FrozenScopeShown
  <2> SUFFICES ASSUME FreezeInv, ShownInv, frozen, started, ~scopeLost, pinned # NoFrame,
                      ~InFlight("scope", "scope-result")
               PROVE  display.scope = groups
    BY DEF FrozenScopeShown
  <2>1. DOMAIN toHelper = 1..Len(toHelper) /\ DOMAIN fromHelper = 1..Len(fromHelper)
    BY DEF FreezeInv, TypeOK, ToHelperOK, FromHelperOK
  <2>2. NoneOf(toHelper, Scopes) /\ NoneOf(fromHelper, Rescopes)  BY <2>1 DEF InFlight, NoneOf, Scopes, Rescopes
  <2> QED  BY <2>2 DEF ShownInv
<1>3. FreezeInv /\ ScopeInv /\ ShownInv /\ [Next]_vars => ShownInv'  BY StepShownInv
<1>4. Spec => []ScopeInv  BY InitScopeInv, StepScopeInv, PTL DEF Spec
<1> QED  BY <1>1, <1>2, <1>3, <1>4, AlwaysFreezeInv, PTL DEF Spec

-----------------------------------------------------------------------------
(* Actions. *)

\* As long as no helper was lost, a view that shows something has a helper with a generation, so
\* what it freezes is a generation.
RealInv ==
  exits = 0 =>
    /\ ~up => live = NoFrame /\ ~frozen
    /\ live # NoFrame => full # NoFrame
    /\ \A i \in 1..Len(fromHelper) :
         /\ fromHelper[i].type = "snapshot" => full # NoFrame
         /\ IsResult(fromHelper[i]) /\ fromHelper[i].frozen => fromHelper[i].frame # NoFrame
    /\ \A i \in 1..Len(toHelper) : IsFreeze(toHelper[i]) /\ toHelper[i].state => full # NoFrame

\* What a frozen view confirms reaches a helper that has a generation pinned.
ConfirmInv ==
  exits = 0 =>
    /\ ~performed
    /\ frozen /\ pendingAction => pinned # NoFrame /\ \A i \in 1..Len(toHelper) : ~IsFreeze(toHelper[i])
    /\ \A i \in 1..Len(toHelper) :
         Confirmed(toHelper[i]) => pinned # NoFrame /\ \A j \in 1..Len(toHelper) : j < i => ~IsFreeze(toHelper[j])

ActionInv == FreezeInv /\ RealInv /\ ConfirmInv

\* What a step leaves alone, unless it ends or starts a helper.
Sides ==
  /\ exits' = exits /\ up' = up /\ (full # NoFrame => full' # NoFrame)
  /\ live' = live \/ (fromHelper # <<>> /\ Head(fromHelper).type = "snapshot")
  /\ pendingAction' => pendingAction \/ ~frozen'
  /\ performed' => performed \/ (toHelper # <<>> /\ Confirmed(Head(toHelper)) /\ pinned = NoFrame)

\* Every step is of one side, or ends or starts the helper.
LEMMA StepSides == TypeOK /\ [Next]_vars => Sides \/ HelperExits \/ HelperStarts
<1> SUFFICES ASSUME TypeOK, [Next]_vars, ~HelperExits, ~HelperStarts PROVE Sides  OBVIOUS
<1>1. CASE UNCHANGED <<helper, hist, live>> /\ (pendingAction' => pendingAction \/ ~frozen')
  BY <1>1 DEF Sides, helper, hist
<1>2. ASSUME NEW gs \in SUBSET Groups, SwitchInstrument(gs) \/ Regroup(gs) \/ Pick(gs) \/ Reopen(gs)
      PROVE  Sides
  BY <1>1, <1>2 DEF SwitchInstrument, Regroup, Pick, Reopen
<1>3. ASSUME NEW sure \in BOOLEAN, ConfirmAction(sure) PROVE Sides
  BY <1>1, <1>3 DEF ConfirmAction, shown
<1>4. CASE Toggle \/ InspectMore \/ FreezeTimeout  BY <1>1, <1>4 DEF Toggle, InspectMore, FreezeTimeout, shown
<1>5. CASE RequestAction  BY <1>1, <1>5 DEF RequestAction, shown, view
<1>6. CASE ReceiveSnapshot  BY <1>6 DEF ReceiveSnapshot, Receive, Sides, helper, hist
<1>7. CASE ReceiveFreeze \/ ReceiveScope \/ ReceiveDetail \/ ReceiveError
  BY <1>1, <1>7 DEF ReceiveFreeze, ReceiveScope, ReceiveDetail, ReceiveError, shown
<1>8. ASSUME gens' = gens + 1, full' = [gen |-> gens', scope |-> scope] PROVE full' # NoFrame
  <2>1. gens + 1 # 0  BY DEF TypeOK, HistOK
  <2>2. full'.gen = gens + 1  BY <1>8
  <2> QED  BY <2>1, <2>2 DEF NoFrame
<1>9. CASE Sample \/ SampleFails  BY <1>8, <1>9 DEF Sample, SampleFails, Sides, shown
<1>10. CASE DoFreeze \/ DoScope \/ DoInspect \/ Discard
  BY <1>10 DEF DoFreeze, DoScope, DoInspect, Discard, Sides, shown, helper, hist
<1>11. CASE DoAction
  BY <1>11 DEF DoAction, Command, Refused, Confirmed, Sides, shown, helper
<1>12. CASE RestartBackend \/ UNCHANGED vars  BY <1>1, <1>12 DEF RestartBackend, vars, shown
<1> QED  BY <1>2, <1>3, <1>4, <1>5, <1>6, <1>7, <1>9, <1>10, <1>11, <1>12 DEF Next

\* What is in the pipes after a step was there, or is no cause for concern.
LEMMA RealKept ==
  ASSUME TypeOK, RealInv, Sides, frozen' => frozen \/ up,
         \A i \in 1..Len(fromHelper') :
           \/ \E j \in 1..Len(fromHelper) : fromHelper'[i] = fromHelper[j]
           \/ /\ fromHelper'[i].type = "snapshot" => full' # NoFrame
              /\ IsResult(fromHelper'[i]) /\ fromHelper'[i].frozen => fromHelper'[i].frame # NoFrame,
         \A i \in 1..Len(toHelper') :
           \/ \E j \in 1..Len(toHelper) : toHelper'[i] = toHelper[j]
           \/ IsFreeze(toHelper'[i]) /\ toHelper'[i].state => live # NoFrame
  PROVE  RealInv'
<1> SUFFICES ASSUME exits' = 0 PROVE RealInv'  BY DEF RealInv
<1>1. exits = 0 /\ up' = up /\ (full # NoFrame => full' # NoFrame)  BY DEF Sides
<1>2. live' = live \/ (up /\ full # NoFrame)
  <2> SUFFICES ASSUME fromHelper # <<>>, Head(fromHelper).type = "snapshot" PROVE up /\ full # NoFrame
    BY DEF Sides
  <2>1. 1 \in 1..Len(fromHelper) /\ Head(fromHelper) = fromHelper[1]
    BY TailShifts DEF TypeOK, FromHelperOK
  <2> QED  BY <1>1, <2>1 DEF RealInv, TypeOK, FromHelperOK
<1>3. ~up' => live' = NoFrame /\ ~frozen'  BY <1>1, <1>2 DEF RealInv
<1>4. live' # NoFrame => full' # NoFrame  BY <1>1, <1>2 DEF RealInv
<1>5. \A i \in 1..Len(fromHelper') :
        /\ fromHelper'[i].type = "snapshot" => full' # NoFrame
        /\ IsResult(fromHelper'[i]) /\ fromHelper'[i].frozen => fromHelper'[i].frame # NoFrame
  BY <1>1 DEF RealInv
<1>6. \A i \in 1..Len(toHelper') : IsFreeze(toHelper'[i]) /\ toHelper'[i].state => full' # NoFrame
  BY <1>1 DEF RealInv
<1> QED  BY <1>3, <1>4, <1>5, <1>6 DEF RealInv

\* Every step keeps what is frozen real.
LEMMA StepRealInv == FreezeInv /\ RealInv /\ [Next]_vars => RealInv'
<1> SUFFICES ASSUME FreezeInv, RealInv, [Next]_vars PROVE RealInv'  OBVIOUS
<1>1. TypeOK /\ ToHelperOK /\ FromHelperOK  BY DEF FreezeInv, TypeOK
<1>2. CASE HelperExits  BY <1>1, <1>2 DEF HelperExits, RealInv, TypeOK, HistOK
<1>3. CASE HelperStarts
  <2> DEFINE c == [op |-> "scope", groups |-> scopeKey[1], frozen |-> FALSE]
  <2>1. toHelper' = <<c>> /\ UNCHANGED <<view, shown, hist>> /\ up'  BY <1>3 DEF HelperStarts, FreshHelper
  <2>2. fromHelper' = <<>> /\ ~up  BY <1>1, <1>3 DEF HelperStarts, FromHelperOK
  <2>3. ~IsFreeze(c)  BY DEF IsFreeze
  <2> HIDE DEF c
  <2>4. 1..Len(<<c>>) = {1} /\ <<c>>[1] = c /\ 1..Len(<<>>) = {}  OBVIOUS
  <2> QED  BY <2>1, <2>2, <2>3, <2>4 DEF RealInv, view, shown, hist
<1>4. CASE Sides
  <2>1. fromHelper # <<>> => up  BY <1>1 DEF FromHelperOK
  <2>2. ASSUME Received
        PROVE  \A i \in 1..Len(fromHelper') : \E j \in 1..Len(fromHelper) : fromHelper'[i] = fromHelper[j]
    <3>1. PICK d \in {0, 1} :
            \A i \in 1..Len(fromHelper') : i + d \in 1..Len(fromHelper) /\ fromHelper'[i] = fromHelper[i + d]
      BY <1>1, <2>2, ReceivedShifts
    <3> QED  BY <3>1
  <2>3. ASSUME NEW fz, Pushed(fz)
        PROVE  \A i \in 1..Len(toHelper') :
                 (\E j \in 1..Len(toHelper) : toHelper'[i] = toHelper[j]) \/ ~IsFreeze(toHelper'[i])
    BY <1>1, <2>3 DEF Pushed, Quiet, ToHelperOK
  <2>4. ASSUME NEW c, PushedFreeze(c)
        PROVE  \A i \in 1..Len(toHelper') :
                 \/ \E j \in 1..Len(toHelper) : toHelper'[i] = toHelper[j]
                 \/ toHelper'[i] = c
                 \/ ~IsFreeze(toHelper'[i])
    BY <1>1, <2>4 DEF PushedFreeze, Aside, ToHelperOK
  <2>5. ASSUME toHelper # <<>>, toHelper' = Tail(toHelper)
        PROVE  \A i \in 1..Len(toHelper') : \E j \in 1..Len(toHelper) : toHelper'[i] = toHelper[j]
    BY <1>1, <2>5, TailShifts DEF ToHelperOK
  <2>6. CASE Stays \/ Thaws
    <3>1. Received /\ (frozen' => frozen)
      <4>1. CASE Stays  BY <4>1 DEF Stays
      <4>2. CASE Thaws  BY <4>2 DEF Thaws
      <4> QED  BY <2>6, <4>1, <4>2
    <3>2. Pushed(frozen) \/ Pushed(FALSE)  BY <2>6 DEF Stays, Thaws
    <3>3. \A i \in 1..Len(toHelper') :
            (\E j \in 1..Len(toHelper) : toHelper'[i] = toHelper[j]) \/ ~IsFreeze(toHelper'[i])
      BY <2>3, <3>2
    <3> QED  BY <1>1, <1>4, <2>2, <3>1, <3>3, RealKept
  <2>7. CASE Freezes
    <3>1. Received /\ up /\ Pushed(TRUE)  BY <2>1, <2>7 DEF Freezes, Received
    <3>2. \A i \in 1..Len(toHelper') :
            (\E j \in 1..Len(toHelper) : toHelper'[i] = toHelper[j]) \/ ~IsFreeze(toHelper'[i])
      BY <2>3, <3>1
    <3> QED  BY <1>1, <1>4, <2>2, <3>1, <3>2, RealKept
  <2>8. CASE Releases
    <3> DEFINE c == FreezeCommand(FALSE)
    <3>1. ~c.state  BY DEF FreezeCommand
    <3>2. PushedFreeze(c) /\ ~frozen' /\ fromHelper' = fromHelper  BY <2>8 DEF Releases
    <3> HIDE DEF c
    <3>3. \A i \in 1..Len(toHelper') :
            \/ \E j \in 1..Len(toHelper) : toHelper'[i] = toHelper[j]
            \/ ~(IsFreeze(toHelper'[i]) /\ toHelper'[i].state)
      BY <2>4, <3>1, <3>2
    <3> QED  BY <1>1, <1>4, <3>2, <3>3, RealKept
  <2>9. CASE Asks
    <3> DEFINE c == FreezeCommand(~frozen)
    <3>1. PushedFreeze(c) /\ frozen' = frozen /\ fromHelper' = fromHelper /\ live # NoFrame  BY <2>9 DEF Asks, Showing
    <3> HIDE DEF c
    <3>2. \A i \in 1..Len(toHelper') :
            \/ \E j \in 1..Len(toHelper) : toHelper'[i] = toHelper[j]
            \/ IsFreeze(toHelper'[i]) /\ toHelper'[i].state => live # NoFrame
      BY <3>1
    <3> QED  BY <1>1, <1>4, <3>1, <3>2, RealKept
  <2>10. CASE Answers
    <3>1. frozen' = frozen  BY <2>10 DEF Answers
    <3>2. \A i \in 1..Len(toHelper') : \E j \in 1..Len(toHelper) : toHelper'[i] = toHelper[j]
      BY <2>5, <2>10 DEF Answers
    <3>3. \A i \in 1..Len(fromHelper') :
            \/ \E j \in 1..Len(fromHelper) : fromHelper'[i] = fromHelper[j]
            \/ (fromHelper'[i].type = "snapshot" => full' # NoFrame) /\ ~IsResult(fromHelper'[i])
      <4>1. CASE fromHelper' = fromHelper  BY <4>1
      <4>2. CASE fromHelper' # fromHelper
        <5>1. PICK r \in Records : /\ fromHelper' = Append(fromHelper, r) /\ ~IsResult(r)
                                   /\ r.type = "snapshot" => full' # NoFrame
          BY <2>10, <4>2 DEF Answers
        <5> QED  BY <1>1, <5>1, AppendEnds DEF FromHelperOK
      <4> QED  BY <4>1, <4>2
    <3> QED  BY <1>1, <1>4, <3>1, <3>2, <3>3, RealKept
  <2>11. CASE DoFreeze
    <3> DEFINE c == Head(toHelper)
               r == [type |-> "freeze-result", id |-> c.id, frozen |-> c.state, frame |-> pinned']
    <3>1. toHelper # <<>> /\ toHelper' = Tail(toHelper) /\ IsFreeze(c) /\ frozen' = frozen
          /\ fromHelper' = Append(fromHelper, r) /\ pinned' = IF c.state THEN full ELSE NoFrame
      BY <2>11 DEF DoFreeze, Command, Answer, IsFreeze, view
    <3>2. r \in Records
      <4>1. c.id \in 1..MaxRequests /\ c.state \in BOOLEAN
        BY <1>1, <2>11, CommandTyped, OperandTyped DEF DoFreeze
      <4>2. pinned' \in Frames  BY <1>1, TypeStep DEF TypeOK, HelperOK
      <4> QED  BY <4>1, <4>2, RecordsMade
    <3>3. r.type = "freeze-result" /\ r.frozen = c.state /\ r.frame = pinned'  OBVIOUS
    <3>4. 1 \in 1..Len(toHelper) /\ c = toHelper[1]  BY <1>1, <3>1, TailShifts DEF ToHelperOK
    <3> HIDE DEF c, r
    <3>5. \A i \in 1..Len(fromHelper') :
            (\E j \in 1..Len(fromHelper) : fromHelper'[i] = fromHelper[j]) \/ fromHelper'[i] = r
      BY <1>1, <3>1, <3>2, AppendEnds DEF FromHelperOK
    <3>6. exits = 0 /\ c.state => full # NoFrame  BY <3>1, <3>4 DEF RealInv
    <3>7. \A i \in 1..Len(toHelper') : \E j \in 1..Len(toHelper) : toHelper'[i] = toHelper[j]  BY <2>5, <3>1
    <3>8. CASE exits = 0
      <4>1. r.frozen => r.frame # NoFrame  BY <3>1, <3>3, <3>6, <3>8
      <4>2. r.type # "snapshot"  BY <3>3
      <4> QED  BY <1>1, <1>4, <3>1, <3>5, <3>7, <4>1, <4>2, RealKept
    <3>9. CASE exits # 0  BY <1>4, <3>9 DEF Sides, RealInv
    <3> QED  BY <3>8, <3>9
  <2>12. CASE Loses
    <3>1. frozen' = frozen /\ fromHelper' = <<>> /\ \A i \in 1..Len(toHelper') : ~IsFreeze(toHelper'[i])
      BY <2>12 DEF Loses, Aside
    <3>2. 1..Len(fromHelper') = {}  BY <3>1
    <3> QED  BY <1>1, <1>4, <3>1, <3>2, RealKept
  <2> QED  BY <2>6, <2>7, <2>8, <2>9, <2>10, <2>11, <2>12, StepKinds
<1> QED  BY <1>1, <1>2, <1>3, <1>4, StepSides

\* When a view becomes frozen no freeze is on its way.
LEMMA FreezesLast ==
  ASSUME FreezeInv, Freezes
  PROVE  /\ pinned = Head(fromHelper).frame
         /\ \A i \in 1..Len(toHelper) : ~IsFreeze(toHelper[i])
<1> DEFINE answer == Head(fromHelper)
<1>1. TypeOK /\ Numbered /\ AnswerIsPinned  BY DEF FreezeInv
<1>2. IsResult(answer) /\ answer.frozen /\ answer.id = freezeSequence /\ fromHelper # <<>>
  BY DEF Freezes, FreezeInv, AwaitsLast
<1>3. 1 \in 1..Len(fromHelper) /\ answer = fromHelper[1]
  BY <1>1, <1>2, TailShifts DEF TypeOK, FromHelperOK
<1> HIDE DEF answer
<1>4. ASSUME NEW i \in 1..Len(toHelper), IsFreeze(toHelper[i]) PROVE FALSE
  <2>1. fromHelper[1].id < toHelper[i].id /\ toHelper[i].id <= freezeSequence
    BY <1>1, <1>2, <1>3, <1>4 DEF Numbered
  <2>2. toHelper[i].id \in Int  BY <1>1, <1>4, OperandTyped DEF TypeOK, ToHelperOK, IsFreeze
  <2>3. freezeSequence \in Int  BY <1>1 DEF TypeOK, RequestOK
  <2> QED  BY <1>2, <1>3, <2>1, <2>2, <2>3
<1>5. pinned = answer.frame  BY <1>1, <1>2, <1>3 DEF AnswerIsPinned
<1> QED  BY <1>4, <1>5 DEF answer

\* Every step keeps confirmed actions before later freezes.
LEMMA StepConfirmInv == ActionInv /\ [Next]_vars => ConfirmInv'
<1> SUFFICES ASSUME ActionInv, [Next]_vars, exits' = 0 PROVE ConfirmInv'  BY DEF ConfirmInv
<1>1. FreezeInv /\ TypeOK /\ ToHelperOK /\ FromHelperOK  BY DEF ActionInv, FreezeInv, TypeOK
<1>2. Len(toHelper) \in Nat  BY <1>1 DEF ToHelperOK
<1>3. ~HelperExits  BY <1>1 DEF HelperExits, TypeOK, HistOK
<1>4. CASE HelperStarts
  <2> DEFINE c == [op |-> "scope", groups |-> scopeKey[1], frozen |-> FALSE]
  <2>1. toHelper' = <<c>> /\ UNCHANGED <<view, hist>> /\ ~up  BY <1>4 DEF HelperStarts
  <2>2. ~IsFreeze(c) /\ ~Confirmed(c)  BY DEF IsFreeze, Confirmed
  <2> HIDE DEF c
  <2>3. 1..Len(<<c>>) = {1} /\ <<c>>[1] = c  OBVIOUS
  <2>4. exits = 0 /\ ~frozen /\ ~frozen' /\ performed' = performed
    BY <2>1 DEF view, hist, ActionInv, RealInv
  <2>5. \A i \in 1..Len(toHelper') : ~IsFreeze(toHelper'[i]) /\ ~Confirmed(toHelper'[i])  BY <2>1, <2>2, <2>3
  <2> QED  BY <2>4, <2>5 DEF ActionInv, ConfirmInv
<1>5. CASE Sides
  <2>1. exits = 0 /\ ~performed /\ (pendingAction' => pendingAction \/ ~frozen')
    BY <1>5 DEF Sides, ActionInv, ConfirmInv
  <2>2. frozen /\ pendingAction => pinned # NoFrame /\ \A i \in 1..Len(toHelper) : ~IsFreeze(toHelper[i])
    BY <2>1 DEF ActionInv, ConfirmInv
  <2>3. \A i \in 1..Len(toHelper) :
          Confirmed(toHelper[i]) =>
            pinned # NoFrame /\ \A j \in 1..Len(toHelper) : j < i => ~IsFreeze(toHelper[j])
    BY <2>1 DEF ActionInv, ConfirmInv
  <2>4. ~performed'
    <3> SUFFICES ASSUME toHelper # <<>>, Confirmed(Head(toHelper)), pinned = NoFrame PROVE FALSE
      BY <1>5, <2>1 DEF Sides
    <3>1. 1 \in 1..Len(toHelper) /\ Head(toHelper) = toHelper[1]  BY <1>1, TailShifts DEF ToHelperOK
    <3> QED  BY <2>3, <3>1
  <2>5. ASSUME NEW fz, Pushed(fz), UNCHANGED pinned,
               frozen' /\ pendingAction' => pinned # NoFrame /\ \A i \in 1..Len(toHelper) : ~IsFreeze(toHelper[i])
        PROVE  ConfirmInv'
    <3>1. Len(toHelper') \in Nat /\ Len(toHelper) <= Len(toHelper')  BY <1>2, <2>5 DEF Pushed
    <3>2. \A i \in 1..Len(toHelper') :
            \/ i \in 1..Len(toHelper) /\ toHelper'[i] = toHelper[i]
            \/ ~IsFreeze(toHelper'[i]) /\ (Confirmed(toHelper'[i]) => frozen /\ pendingAction)
      BY <1>2, <2>5, <3>1 DEF Pushed, Quiet
    <3>3. ASSUME NEW i \in 1..Len(toHelper'), Confirmed(toHelper'[i]),
                 NEW j \in 1..Len(toHelper'), j < i
          PROVE  ~IsFreeze(toHelper'[j])
      <4>1. CASE i \in 1..Len(toHelper) /\ toHelper'[i] = toHelper[i]
        <5>1. j \in 1..Len(toHelper) /\ toHelper'[j] = toHelper[j]  BY <1>2, <2>5, <3>3, <4>1 DEF Pushed
        <5> QED  BY <2>3, <3>3, <4>1, <5>1
      <4>2. CASE frozen /\ pendingAction  BY <2>2, <3>2, <4>2
      <4> QED  BY <3>2, <3>3, <4>1, <4>2
    <3>4. ASSUME NEW i \in 1..Len(toHelper'), Confirmed(toHelper'[i]) PROVE pinned' # NoFrame
      BY <2>2, <2>3, <2>5, <3>2, <3>4
    <3>5. frozen' /\ pendingAction' => pinned' # NoFrame /\ \A i \in 1..Len(toHelper') : ~IsFreeze(toHelper'[i])
      BY <2>5, <3>2
    <3> QED  BY <2>4, <3>3, <3>4, <3>5 DEF ConfirmInv
  <2>6. CASE Stays
    <3>1. frozen' /\ pendingAction' => frozen /\ pendingAction  BY <2>1, <2>6 DEF Stays
    <3>2. Pushed(frozen) /\ UNCHANGED pinned  BY <2>6 DEF Stays
    <3> QED  BY <2>2, <2>5, <3>1, <3>2
  <2>7. CASE Thaws
    <3>1. ~frozen' /\ Pushed(FALSE) /\ UNCHANGED pinned  BY <2>7 DEF Thaws
    <3> QED  BY <2>5, <3>1
  <2>8. CASE Freezes
    <3>1. pinned = Head(fromHelper).frame /\ \A i \in 1..Len(toHelper) : ~IsFreeze(toHelper[i])
      BY <1>1, <2>8, FreezesLast
    <3>2. 1 \in 1..Len(fromHelper) /\ Head(fromHelper) = fromHelper[1]
      BY <1>1, <2>8, TailShifts DEF Freezes, FromHelperOK
    <3>3. Head(fromHelper).frame # NoFrame  BY <2>1, <2>8, <3>2 DEF Freezes, ActionInv, RealInv
    <3>4. Pushed(TRUE) /\ UNCHANGED pinned  BY <2>8 DEF Freezes
    <3> QED  BY <2>5, <3>1, <3>3, <3>4
  <2>9. ASSUME NEW c, ~Confirmed(c), PushedFreeze(c), UNCHANGED pinned, ~(frozen' /\ pendingAction')
        PROVE  ConfirmInv'
    <3>1. Len(toHelper') \in Nat /\ Len(toHelper) <= Len(toHelper')  BY <1>2, <2>9 DEF PushedFreeze
    <3>2. \A i \in 1..Len(toHelper') :
            Confirmed(toHelper'[i]) => i \in 1..Len(toHelper) /\ toHelper'[i] = toHelper[i]
      BY <1>2, <2>9, <3>1 DEF PushedFreeze, Aside
    <3>3. ASSUME NEW i \in 1..Len(toHelper'), Confirmed(toHelper'[i]),
                 NEW j \in 1..Len(toHelper'), j < i
          PROVE  ~IsFreeze(toHelper'[j])
      <4>1. j \in 1..Len(toHelper) /\ toHelper'[j] = toHelper[j]
        BY <1>2, <2>9, <3>2, <3>3 DEF PushedFreeze
      <4> QED  BY <2>3, <3>2, <3>3, <4>1
    <3>4. ASSUME NEW i \in 1..Len(toHelper'), Confirmed(toHelper'[i]) PROVE pinned' # NoFrame
      BY <2>3, <2>9, <3>2, <3>4
    <3> QED  BY <2>4, <2>9, <3>3, <3>4 DEF ConfirmInv
  <2>10. CASE Releases
    <3> DEFINE c == FreezeCommand(FALSE)
    <3>1. ~Confirmed(c)  BY DEF Confirmed, FreezeCommand
    <3>2. PushedFreeze(c) /\ UNCHANGED pinned /\ ~frozen'  BY <2>10 DEF Releases
    <3> HIDE DEF c
    <3> QED  BY <2>9, <3>1, <3>2
  <2>11. CASE Asks
    <3> DEFINE c == FreezeCommand(~frozen)
    <3>1. ~Confirmed(c)  BY DEF Confirmed, FreezeCommand
    <3>2. PushedFreeze(c) /\ UNCHANGED pinned /\ ~pendingAction'  BY <2>11 DEF Asks
    <3> HIDE DEF c
    <3> QED  BY <2>9, <3>1, <3>2
  <2>12. ASSUME UNCHANGED <<pinned, frozen>>, NEW d \in {0, 1},
                \A i \in 1..Len(toHelper') : i + d \in 1..Len(toHelper) /\ toHelper'[i] = toHelper[i + d]
         PROVE  ConfirmInv'
    <3>1. frozen' /\ pendingAction' => pinned' # NoFrame /\ \A i \in 1..Len(toHelper') : ~IsFreeze(toHelper'[i])
      BY <2>1, <2>2, <2>12
    <3>2. ASSUME NEW i \in 1..Len(toHelper'), Confirmed(toHelper'[i]),
                 NEW j \in 1..Len(toHelper'), j < i
          PROVE  ~IsFreeze(toHelper'[j])
      <4>1. j + d < i + d  BY <2>12, <3>2
      <4> QED  BY <2>3, <2>12, <3>2, <4>1
    <3>3. ASSUME NEW i \in 1..Len(toHelper'), Confirmed(toHelper'[i]) PROVE pinned' # NoFrame
      BY <2>3, <2>12, <3>3
    <3> QED  BY <2>4, <3>1, <3>2, <3>3 DEF ConfirmInv
  <2>13. CASE Answers
    <3>1. UNCHANGED <<pinned, frozen>>  BY <2>13 DEF Answers
    <3>2. CASE toHelper' = toHelper
      <4>1. \A i \in 1..Len(toHelper) : i + 0 = i  BY <1>2
      <4> QED  BY <2>12, <3>1, <3>2, <4>1
    <3>3. CASE toHelper # <<>> /\ toHelper' = Tail(toHelper)
      <4>1. \A i \in 1..Len(toHelper') : i + 1 \in 1..Len(toHelper) /\ toHelper'[i] = toHelper[i + 1]
        BY <1>1, <3>3, TailShifts DEF ToHelperOK
      <4> QED  BY <2>12, <3>1, <4>1
    <3> QED  BY <2>13, <3>2, <3>3 DEF Answers
  <2>14. CASE DoFreeze
    <3>1. toHelper # <<>> /\ toHelper' = Tail(toHelper) /\ IsFreeze(Head(toHelper)) /\ frozen' = frozen
      BY <2>14 DEF DoFreeze, Command, IsFreeze, view
    <3>2. /\ 1 \in 1..Len(toHelper) /\ IsFreeze(toHelper[1])
          /\ \A i \in 1..Len(toHelper') : i + 1 \in 1..Len(toHelper) /\ toHelper'[i] = toHelper[i + 1]
      BY <1>1, <3>1, TailShifts DEF ToHelperOK
    <3>3. ~(frozen' /\ pendingAction')  BY <2>1, <2>2, <3>1, <3>2
    <3>4. ASSUME NEW i \in 1..Len(toHelper'), Confirmed(toHelper'[i]) PROVE FALSE
      <4>1. 1 < i + 1  BY <3>4
      <4> QED  BY <2>3, <3>2, <3>4, <4>1
    <3> QED  BY <2>4, <3>3, <3>4 DEF ConfirmInv
  <2>15. CASE Loses
    <3>1. ~up /\ frozen' = frozen /\ \A i \in 1..Len(toHelper') : ~Confirmed(toHelper'[i])
      BY <2>15 DEF Loses, Aside
    <3>2. ~frozen'  BY <2>1, <3>1 DEF ActionInv, RealInv
    <3> QED  BY <2>4, <3>1, <3>2 DEF ConfirmInv
  <2> QED  BY <1>1, <2>6, <2>7, <2>8, <2>10, <2>11, <2>13, <2>14, <2>15, StepKinds
<1> QED  BY <1>1, <1>3, <1>4, <1>5, StepSides

\* The invariant of actions holds initially.
LEMMA InitActionInv == Init => ActionInv
<1>1. 1..Len(<<>>) = {}  OBVIOUS
<1> QED  BY <1>1, InitFreezeInv DEF Init, ActionInv, RealInv, ConfirmInv

\* Every step keeps the invariant of actions.
LEMMA StepActionInv == ActionInv /\ [Next]_vars => ActionInv'
<1> SUFFICES ASSUME ActionInv, [Next]_vars PROVE ActionInv'  OBVIOUS
<1>1. FreezeInv' /\ RealInv'  BY StepFreezeInv, StepRealInv DEF ActionInv
<1> QED  BY <1>1, StepConfirmInv DEF ActionInv

\* No audio action is performed for a frozen view, as long as no helper was lost.
THEOREM FrozenRefuses == Spec => []NoActionWhileFrozen
<1>1. ActionInv => NoActionWhileFrozen  BY DEF ActionInv, ConfirmInv, NoActionWhileFrozen
<1> QED  BY <1>1, InitActionInv, StepActionInv, PTL DEF Spec

\* The generation of the snapshot in a record.
FrameGen(r) == IF r.type \in {"snapshot", "freeze-result", "scope-result"} THEN r.frame.gen ELSE 0

\* Nothing is later than the last sample, which a helper that has sampled still has.
CountedInv ==
  /\ full.gen \in {0, gens} /\ pinned.gen <= gens
  /\ live.gen <= gens /\ display.gen <= gens
  /\ ready => full.gen # 0

\* What a record shows is no later than the last sample; who sent a snapshot has sampled.
RecordInv(r) ==
  /\ FrameGen(r) <= gens
  /\ r.type = "snapshot" => full.gen # 0

\* A freeze is only asked of a helper that has sampled.
AskedInv == \A i \in 1..Len(toHelper) : IsFreeze(toHelper[i]) /\ toHelper[i].state => full.gen # 0

\* What is shown, and what arrives before the answer to a freeze, is no later than the answer.
NewestInv ==
  \A i \in 1..Len(fromHelper) :
    IsResult(fromHelper[i]) /\ fromHelper[i].frozen =>
      /\ live.gen <= fromHelper[i].frame.gen /\ display.gen <= fromHelper[i].frame.gen
      /\ \A j \in 1..i : FrameGen(fromHelper[j]) <= fromHelper[i].frame.gen

RecordsInv == \A i \in 1..Len(fromHelper) : RecordInv(fromHelper[i])

TimeInv == CountedInv /\ RecordsInv /\ AskedInv /\ NewestInv

\* What a step does to the generations, unless it ends or starts a helper.
Onwards ==
  /\ gens' \in Nat /\ gens' >= gens
  /\ (full' = full /\ gens' = gens) \/ (full'.gen = gens' /\ gens' # 0)
  /\ pinned' \in {pinned, full, NoFrame}

\* The view takes what it shows from the record it reads.
Reads ==
  /\ \/ fromHelper' = fromHelper /\ live' = live /\ display' \in {display, live}
        /\ (ready' => ready)
     \/ /\ fromHelper # <<>> /\ fromHelper' = Tail(fromHelper)
        /\ live' = live \/ live'.gen = FrameGen(Head(fromHelper))
        /\ display' \in {display, live'} \/ display'.gen = FrameGen(Head(fromHelper))
        /\ ready' => ready \/ Head(fromHelper).type = "snapshot"

\* The helper adds a record.
Writes ==
  /\ UNCHANGED <<live, display, ready>>
  /\ \E r \in Records :
       /\ fromHelper' = Append(fromHelper, r)
       /\ FrameGen(r) <= gens'
       /\ r.type = "snapshot" => full'.gen # 0
       /\ IsResult(r) /\ r.frozen => r.frame.gen = gens'

\* The generation of a record is a number; a record that carries a frame has that of the frame.
LEMMA FrameGenTyped ==
  ASSUME NEW r \in Records
  PROVE  /\ FrameGen(r) \in Nat
         /\ r.type \in {"snapshot", "freeze-result", "scope-result"} =>
              r.frame \in Frames /\ FrameGen(r) = r.frame.gen
  BY BoundAssumption DEF Records, FrameGen, Frames

\* Every step moves onwards, and reads or writes.
LEMMA StepTimes ==
  TypeOK /\ CountedInv /\ AskedInv /\ [Next]_vars =>
    (Onwards /\ (Reads \/ Writes)) \/ HelperExits \/ HelperStarts
<1> SUFFICES ASSUME TypeOK, CountedInv, AskedInv, [Next]_vars, ~HelperExits, ~HelperStarts
             PROVE  Onwards /\ (Reads \/ Writes)
  OBVIOUS
<1>1. gens \in Nat /\ full \in Frames  BY BoundAssumption DEF TypeOK, HistOK, HelperOK
<1>2. full' = full /\ pinned' = pinned /\ gens' = gens => Onwards  BY <1>1 DEF Onwards
<1>3. UNCHANGED <<fromHelper, live>> /\ (ready' => ready) /\ display' \in {display, live} => Reads
  BY DEF Reads
<1>4. ASSUME NEW gs \in SUBSET Groups, SwitchInstrument(gs) \/ Regroup(gs) \/ Pick(gs) \/ Reopen(gs)
      PROVE  Onwards /\ Reads
  BY <1>2, <1>3, <1>4 DEF SwitchInstrument, Regroup, Pick, Reopen, helper, host, hist
<1>5. ASSUME NEW sure \in BOOLEAN, ConfirmAction(sure) PROVE Onwards /\ Reads
  BY <1>2, <1>3, <1>5 DEF ConfirmAction, shown, helper, host, hist
<1>6. CASE Toggle \/ InspectMore \/ FreezeTimeout \/ RequestAction
  BY <1>2, <1>3, <1>6 DEF Toggle, InspectMore, FreezeTimeout, RequestAction, shown, helper, host, hist
<1>7. CASE RestartBackend \/ UNCHANGED vars
  BY <1>2, <1>3, <1>7 DEF RestartBackend, vars, shown, helper, host, hist
<1>8. CASE ReceiveSnapshot
  <2>1. Onwards  BY <1>2, <1>8 DEF ReceiveSnapshot, helper, hist
  <2>2. FrameGen(Head(fromHelper)) = Head(fromHelper).frame.gen  BY <1>8 DEF ReceiveSnapshot, Receive, FrameGen
  <2>3. /\ fromHelper # <<>> /\ fromHelper' = Tail(fromHelper) /\ Head(fromHelper).type = "snapshot"
        /\ live'.gen = Head(fromHelper).frame.gen /\ display' \in {display, live'}
    BY <1>8 DEF ReceiveSnapshot, Receive
  <2> QED  BY <2>1, <2>2, <2>3 DEF Reads
<1>9. CASE ReceiveFreeze \/ ReceiveScope \/ ReceiveDetail \/ ReceiveError
  <2>1. Onwards  BY <1>2, <1>9 DEF ReceiveFreeze, ReceiveScope, ReceiveDetail, ReceiveError, helper, hist
  <2>2. /\ fromHelper # <<>> /\ fromHelper' = Tail(fromHelper) /\ UNCHANGED <<live, ready>>
    BY <1>9 DEF ReceiveFreeze, ReceiveScope, ReceiveDetail, ReceiveError, Receive, shown, host
  <2>3. ASSUME Head(fromHelper).type \in {"freeze-result", "scope-result"}
        PROVE  FrameGen(Head(fromHelper)) = Head(fromHelper).frame.gen
    BY <2>3 DEF FrameGen
  <2>4. display' \in {display, live} \/ display'.gen = FrameGen(Head(fromHelper))
    BY <1>9, <2>3 DEF ReceiveFreeze, ReceiveScope, ReceiveDetail, ReceiveError, Receive, shown
  <2> QED  BY <2>1, <2>2, <2>4 DEF Reads
<1>10. ASSUME NEW r \in Records, fromHelper' = Append(fromHelper, r), UNCHANGED <<live, display, ready>>,
             FrameGen(r) <= gens', r.type = "snapshot" => full'.gen # 0, ~IsResult(r)
       PROVE  Writes
  BY <1>10 DEF Writes
<1>11. CASE Sample \/ SampleFails
  <2> DEFINE r == IF Sample THEN [type |-> "snapshot", frame |-> full'] ELSE [type |-> "error"]
  <2>1. gens' \in Nat /\ gens' >= gens /\ pinned' = pinned
    BY <1>1, <1>11 DEF Sample, SampleFails
  <2>2. (full' = full /\ gens' = gens) \/ (full'.gen = gens' /\ gens' # 0)
    BY <1>1, <1>11 DEF Sample, SampleFails
  <2>3. Onwards  BY <2>1, <2>2 DEF Onwards
  <2>4. Sample => full'.gen = gens' /\ gens' # 0  BY <1>1 DEF Sample
  <2>5. fromHelper' = Append(fromHelper, r) /\ UNCHANGED <<live, display, ready>>
    BY <1>11 DEF Sample, SampleFails, Answer, shown, host
  <2>6. full' \in Frames  BY TypeStep DEF TypeOK, HelperOK
  <2>7. r \in Records  BY <2>6, RecordsMade
  <2>8. FrameGen(r) <= gens' /\ (r.type = "snapshot" => full'.gen # 0) /\ ~IsResult(r)
    BY <2>1, <2>4 DEF FrameGen, IsResult
  <2> HIDE DEF r
  <2> QED  BY <1>10, <2>3, <2>5, <2>7, <2>8
<1>12. CASE DoFreeze
  <2> DEFINE c == Head(toHelper)
             r == [type |-> "freeze-result", id |-> c.id, frozen |-> c.state, frame |-> pinned']
  <2>1. /\ toHelper # <<>> /\ IsFreeze(c) /\ fromHelper' = Append(fromHelper, r)
        /\ pinned' = IF c.state THEN full ELSE NoFrame
        /\ UNCHANGED <<full, gens, live, display, ready>>
    BY <1>12 DEF DoFreeze, Command, Answer, IsFreeze, shown, host, hist
  <2>2. c.id \in 1..MaxRequests /\ c.state \in BOOLEAN
    BY <1>12, CommandTyped, OperandTyped DEF DoFreeze, TypeOK
  <2>3. pinned' \in Frames  BY TypeStep DEF TypeOK, HelperOK
  <2>4. r \in Records  BY <2>2, <2>3, RecordsMade
  <2>5. r.type = "freeze-result" /\ r.frozen = c.state /\ r.frame = pinned' /\ FrameGen(r) = pinned'.gen
    BY DEF FrameGen
  <2>6. c = toHelper[1] /\ 1 \in 1..Len(toHelper)  BY <2>1, TailShifts DEF TypeOK, ToHelperOK
  <2> HIDE DEF c, r
  <2>7. c.state => full.gen = gens  BY <2>1, <2>6 DEF AskedInv, CountedInv
  <2>8. r.frozen => r.frame.gen = gens'  BY <2>1, <2>5, <2>7
  <2>9. FrameGen(r) <= gens'  BY <1>1, <2>1, <2>5, <2>7 DEF NoFrame
  <2>10. Onwards  BY <1>1, <2>1 DEF Onwards
  <2> QED  BY <2>1, <2>4, <2>5, <2>8, <2>9, <2>10 DEF Writes
<1>13. CASE DoScope \/ DoInspect \/ DoAction \/ Discard
  <2>1. Onwards  BY <1>2, <1>13 DEF DoScope, DoInspect, DoAction, Discard, helper, hist
  <2>2. UNCHANGED <<live, display, ready, gens>>
    BY <1>13 DEF DoScope, DoInspect, DoAction, Discard, shown, host, hist
  <2>3. CASE fromHelper' = fromHelper  BY <1>3, <2>1, <2>2, <2>3
  <2>4. CASE DoScope /\ fromHelper' # fromHelper
    <3> DEFINE r == [type |-> "scope-result", frame |-> Scoped(Head(toHelper).groups)]
    <3>1. fromHelper' = Append(fromHelper, r)  BY <2>4 DEF DoScope, Answer
    <3>2. r \in Records
      <4>1. Head(toHelper).groups \in SUBSET Groups
        BY <2>4, CommandTyped, OperandTyped DEF DoScope, TypeOK
      <4> QED  BY <4>1, AnswersTyped, RecordsMade
    <3>3. r.type = "scope-result" /\ FrameGen(r) = pinned.gen  BY DEF FrameGen, Scoped
    <3> HIDE DEF r
    <3> QED  BY <1>10, <2>1, <2>2, <3>1, <3>2, <3>3 DEF CountedInv, IsResult
  <2>5. CASE DoInspect
    <3> DEFINE r == [type |-> "detail", detail |-> Inspected(Head(toHelper).frozen)]
    <3>1. fromHelper' = Append(fromHelper, r)  BY <2>5 DEF DoInspect, Answer
    <3>2. r \in Records
      <4>1. Head(toHelper).frozen \in BOOLEAN
        BY <2>5, CommandTyped, OperandTyped DEF DoInspect, TypeOK
      <4> QED  BY <4>1, AnswersTyped, RecordsMade
    <3>3. r.type = "detail" /\ FrameGen(r) = 0  BY DEF FrameGen
    <3> HIDE DEF r
    <3> QED  BY <1>1, <1>10, <2>1, <2>2, <3>1, <3>2, <3>3 DEF IsResult
  <2>6. CASE (DoAction \/ Discard) /\ fromHelper' # fromHelper
    <3> DEFINE r == [type |-> "error"]
    <3>1. fromHelper' = Append(fromHelper, r)  BY <2>6 DEF DoAction, Discard, Answer
    <3>2. r \in Records /\ r.type = "error" /\ FrameGen(r) = 0  BY RecordsMade DEF FrameGen
    <3> HIDE DEF r
    <3> QED  BY <1>1, <1>10, <2>1, <2>2, <3>1, <3>2 DEF IsResult
  <2> QED  BY <1>13, <2>3, <2>4, <2>5, <2>6
<1> QED  BY <1>4, <1>5, <1>6, <1>7, <1>8, <1>9, <1>11, <1>12, <1>13 DEF Next

\* Reading records keeps the order of the generations.
LEMMA ReadsTime ==
  ASSUME TypeOK, TypeOK', TimeInv, Onwards, Reads
  PROVE  CountedInv' /\ RecordsInv' /\ NewestInv'
<1>1. /\ gens \in Nat /\ gens' \in Nat
      /\ live.gen \in Nat /\ display.gen \in Nat /\ live'.gen \in Nat /\ display'.gen \in Nat
      /\ full.gen \in Nat /\ pinned.gen \in Nat
  BY BoundAssumption DEF TypeOK, HistOK, ShownOK, HelperOK, Frames
<1>2. \A i \in 1..Len(fromHelper) :
        /\ FrameGen(fromHelper[i]) \in Nat
        /\ IsResult(fromHelper[i]) => fromHelper[i].frame.gen = FrameGen(fromHelper[i])
  BY FrameGenTyped DEF TypeOK, FromHelperOK, IsResult
<1>3. full.gen # 0 => full'.gen # 0  BY <1>1 DEF Onwards, TimeInv, CountedInv
<1>4. full'.gen \in {0, gens'} /\ pinned'.gen <= gens'
  BY <1>1 DEF Onwards, TimeInv, CountedInv, NoFrame
<1>5. CASE /\ fromHelper' = fromHelper /\ live' = live /\ display' \in {display, live}
           /\ (ready' => ready)
  <2>1. live'.gen = live.gen /\ (display'.gen = display.gen \/ display'.gen = live.gen)  BY <1>5
  <2>2. CountedInv'  BY <1>1, <1>3, <1>4, <1>5, <2>1 DEF Onwards, TimeInv, CountedInv
  <2>3. RecordsInv'
    BY <1>1, <1>2, <1>3, <1>5 DEF Onwards, TimeInv, RecordsInv, RecordInv
  <2>4. NewestInv'  BY <1>1, <1>2, <1>5, <2>1 DEF TimeInv, NewestInv
  <2> QED  BY <2>2, <2>3, <2>4
<1>6. CASE /\ fromHelper # <<>> /\ fromHelper' = Tail(fromHelper)
           /\ live' = live \/ live'.gen = FrameGen(Head(fromHelper))
           /\ display' \in {display, live'} \/ display'.gen = FrameGen(Head(fromHelper))
           /\ ready' => ready \/ Head(fromHelper).type = "snapshot"
  <2>1. /\ 1 \in 1..Len(fromHelper) /\ Head(fromHelper) = fromHelper[1]
        /\ Len(fromHelper') = Len(fromHelper) - 1 /\ Len(fromHelper) \in Nat
        /\ \A i \in 1..Len(fromHelper') : i + 1 \in 1..Len(fromHelper) /\ fromHelper'[i] = fromHelper[i + 1]
    BY <1>6, TailShifts DEF TypeOK, FromHelperOK
  <2> DEFINE h == FrameGen(Head(fromHelper))
  <2>2. h \in Nat /\ h <= gens /\ (Head(fromHelper).type = "snapshot" => full.gen # 0)
    BY <1>2, <2>1 DEF TimeInv, RecordsInv, RecordInv
  <2>3. /\ live'.gen = live.gen \/ live'.gen = h
        /\ display'.gen = display.gen \/ display'.gen = live.gen \/ display'.gen = h
    BY <1>6
  <2> HIDE DEF h
  <2>4. CountedInv'
    BY <1>1, <1>3, <1>4, <1>6, <2>2, <2>3 DEF Onwards, TimeInv, CountedInv
  <2>5. RecordsInv'
    <3>1. \A i \in 1..Len(fromHelper) :
            FrameGen(fromHelper[i]) <= gens' /\ (fromHelper[i].type = "snapshot" => full'.gen # 0)
      BY <1>1, <1>2, <1>3 DEF Onwards, TimeInv, RecordsInv, RecordInv
    <3>2. \A i \in 1..Len(fromHelper') :
            FrameGen(fromHelper'[i]) <= gens' /\ (fromHelper'[i].type = "snapshot" => full'.gen # 0)
      BY <2>1, <3>1
    <3> QED  BY <3>2 DEF RecordsInv, RecordInv
  <2>6. ASSUME NEW i \in 1..Len(fromHelper'), IsResult(fromHelper'[i]), fromHelper'[i].frozen
        PROVE  /\ live'.gen <= fromHelper'[i].frame.gen /\ display'.gen <= fromHelper'[i].frame.gen
               /\ \A j \in 1..i : FrameGen(fromHelper'[j]) <= fromHelper'[i].frame.gen
    <3>1. /\ i + 1 \in 1..Len(fromHelper) /\ fromHelper'[i] = fromHelper[i + 1]
          /\ 1 \in 1..(i + 1)
      BY <2>1
    <3>2. /\ live.gen <= fromHelper[i + 1].frame.gen /\ display.gen <= fromHelper[i + 1].frame.gen
          /\ \A j \in 1..(i + 1) : FrameGen(fromHelper[j]) <= fromHelper[i + 1].frame.gen
      BY <2>6, <3>1 DEF TimeInv, NewestInv
    <3>3. h <= fromHelper[i + 1].frame.gen  BY <2>1, <3>1, <3>2 DEF h
    <3>4. ASSUME NEW j \in 1..i PROVE FrameGen(fromHelper'[j]) <= fromHelper'[i].frame.gen
      <4>1. j \in 1..Len(fromHelper') /\ j + 1 \in 1..(i + 1)  BY <2>1
      <4> QED  BY <2>1, <3>1, <3>2, <4>1
    <3>5. fromHelper[i + 1].frame.gen \in Nat  BY <1>2, <2>6, <3>1
    <3> QED  BY <1>1, <2>2, <2>3, <3>1, <3>2, <3>3, <3>4, <3>5
  <2>7. NewestInv'  BY <2>6 DEF NewestInv
  <2> QED  BY <2>4, <2>5, <2>7
<1> QED  BY <1>5, <1>6 DEF Reads

\* What the helper adds is the latest.
LEMMA WritesTime ==
  ASSUME TypeOK, TypeOK', TimeInv, Onwards, Writes
  PROVE  CountedInv' /\ RecordsInv' /\ NewestInv'
<1>1. /\ gens \in Nat /\ gens' \in Nat
      /\ live.gen \in Nat /\ display.gen \in Nat /\ full.gen \in Nat /\ pinned.gen \in Nat
  BY BoundAssumption DEF TypeOK, HistOK, ShownOK, HelperOK, Frames
<1>2. \A i \in 1..Len(fromHelper) :
        /\ FrameGen(fromHelper[i]) \in Nat
        /\ IsResult(fromHelper[i]) => fromHelper[i].frame.gen = FrameGen(fromHelper[i])
  BY FrameGenTyped DEF TypeOK, FromHelperOK, IsResult
<1>3. full.gen # 0 => full'.gen # 0  BY <1>1 DEF Onwards, TimeInv, CountedInv
<1>4. full'.gen \in {0, gens'} /\ pinned'.gen <= gens'
  BY <1>1 DEF Onwards, TimeInv, CountedInv, NoFrame
<1>5. live' = live /\ display' = display /\ ready' = ready  BY DEF Writes
<1>6. CountedInv'  BY <1>1, <1>3, <1>4, <1>5 DEF Onwards, TimeInv, CountedInv
<1>7. PICK r \in Records :
        /\ fromHelper' = Append(fromHelper, r)
        /\ FrameGen(r) <= gens'
        /\ r.type = "snapshot" => full'.gen # 0
        /\ IsResult(r) /\ r.frozen => r.frame.gen = gens'
  BY DEF Writes
<1>8. /\ Len(fromHelper') = Len(fromHelper) + 1 /\ Len(fromHelper) \in Nat
      /\ \A i \in 1..Len(fromHelper') :
           \/ i \in 1..Len(fromHelper) /\ fromHelper'[i] = fromHelper[i]
           \/ i = Len(fromHelper) + 1 /\ fromHelper'[i] = r
  BY <1>7, AppendEnds DEF TypeOK, FromHelperOK
<1>9. \A i \in 1..Len(fromHelper) :
        FrameGen(fromHelper[i]) <= gens' /\ (fromHelper[i].type = "snapshot" => full'.gen # 0)
  BY <1>1, <1>2, <1>3 DEF Onwards, TimeInv, RecordsInv, RecordInv
<1>10. \A i \in 1..Len(fromHelper') :
         FrameGen(fromHelper'[i]) <= gens' /\ (fromHelper'[i].type = "snapshot" => full'.gen # 0)
  BY <1>7, <1>8, <1>9
<1>11. RecordsInv'  BY <1>10 DEF RecordsInv, RecordInv
<1>12. ASSUME NEW i \in 1..Len(fromHelper'), IsResult(fromHelper'[i]), fromHelper'[i].frozen
       PROVE  /\ live'.gen <= fromHelper'[i].frame.gen /\ display'.gen <= fromHelper'[i].frame.gen
              /\ \A j \in 1..i : FrameGen(fromHelper'[j]) <= fromHelper'[i].frame.gen
  <2>1. CASE i \in 1..Len(fromHelper) /\ fromHelper'[i] = fromHelper[i]
    <3>1. \A j \in 1..i : j \in 1..Len(fromHelper) /\ fromHelper'[j] = fromHelper[j]  BY <1>8, <2>1
    <3> QED  BY <1>5, <1>12, <2>1, <3>1 DEF TimeInv, NewestInv
  <2>2. CASE i = Len(fromHelper) + 1 /\ fromHelper'[i] = r
    <3>1. fromHelper'[i].frame.gen = gens'  BY <1>7, <1>12, <2>2
    <3>2. \A j \in 1..i : j \in 1..Len(fromHelper')  BY <1>8, <2>2
    <3> QED  BY <1>1, <1>5, <1>10, <3>1, <3>2 DEF Onwards, TimeInv, CountedInv
  <2> QED  BY <1>8, <2>1, <2>2
<1>13. NewestInv'  BY <1>12 DEF NewestInv
<1> QED  BY <1>6, <1>11, <1>13

\* A freeze is asked only by a view that shows a snapshot of this helper.
LEMMA StepAskedInv ==
  ASSUME FreezeInv, TimeInv, Onwards, [Next]_vars
  PROVE  AskedInv'
<1>1. TypeOK /\ ToHelperOK /\ full.gen \in Nat /\ gens \in Nat
  BY BoundAssumption DEF FreezeInv, TypeOK, HelperOK, HistOK, Frames
<1>2. full.gen # 0 => full'.gen # 0  BY <1>1 DEF Onwards, TimeInv, CountedInv
<1>3. ASSUME \A i \in 1..Len(toHelper') :
               \/ \E j \in 1..Len(toHelper) : toHelper'[i] = toHelper[j]
               \/ IsFreeze(toHelper'[i]) /\ toHelper'[i].state => ready
      PROVE  AskedInv'
  BY <1>2, <1>3 DEF AskedInv, TimeInv, CountedInv
<1>4. ASSUME NEW fz, Pushed(fz) PROVE AskedInv'
  <2>1. \A i \in 1..Len(toHelper') :
          (\E j \in 1..Len(toHelper) : toHelper'[i] = toHelper[j]) \/ ~IsFreeze(toHelper'[i])
    BY <1>1, <1>4 DEF Pushed, Quiet, ToHelperOK
  <2> QED  BY <1>3, <2>1
<1>5. ASSUME NEW c, PushedFreeze(c), c.state => ready PROVE AskedInv'
  <2>1. \A i \in 1..Len(toHelper') :
          \/ \E j \in 1..Len(toHelper) : toHelper'[i] = toHelper[j]
          \/ toHelper'[i] = c
          \/ ~IsFreeze(toHelper'[i])
    BY <1>1, <1>5 DEF PushedFreeze, Aside, ToHelperOK
  <2> QED  BY <1>3, <1>5, <2>1
<1>6. ASSUME toHelper # <<>>, toHelper' = Tail(toHelper) PROVE AskedInv'
  <2>1. \A i \in 1..Len(toHelper') : \E j \in 1..Len(toHelper) : toHelper'[i] = toHelper[j]
    BY <1>1, <1>6, TailShifts DEF ToHelperOK
  <2> QED  BY <1>3, <2>1
<1>7. CASE Stays \/ Thaws \/ Freezes  BY <1>4, <1>7 DEF Stays, Thaws, Freezes
<1>8. CASE Releases
  <2> DEFINE c == FreezeCommand(FALSE)
  <2>1. PushedFreeze(c) /\ ~c.state  BY <1>8 DEF Releases, FreezeCommand
  <2> HIDE DEF c
  <2> QED  BY <1>5, <2>1
<1>9. CASE Asks
  <2> DEFINE c == FreezeCommand(~frozen)
  <2>1. PushedFreeze(c) /\ ready  BY <1>9 DEF Asks, Showing
  <2> HIDE DEF c
  <2> QED  BY <1>5, <2>1
<1>10. CASE Answers
  <2>1. CASE toHelper' = toHelper  BY <1>3, <2>1
  <2> QED  BY <1>6, <1>10, <2>1 DEF Answers
<1>11. CASE DoFreeze  BY <1>6, <1>11 DEF DoFreeze, Command
<1>12. CASE Loses  BY <1>3, <1>12 DEF Loses, Aside
<1> QED  BY <1>7, <1>8, <1>9, <1>10, <1>11, <1>12, StepKinds

\* The invariant holds at the start, and every step keeps it.
LEMMA InitTimeInv == Init => TimeInv
<1>1. 1..Len(<<>>) = {}  OBVIOUS
<1> QED  BY <1>1 DEF Init, NoFrame, TimeInv, CountedInv, RecordsInv, AskedInv, NewestInv

\* Reading and writing keep it; the end and the start of a helper empty what it is about.
LEMMA StepTimeInv == FreezeInv /\ TimeInv /\ [Next]_vars => TimeInv'
<1> SUFFICES ASSUME FreezeInv, TimeInv, [Next]_vars PROVE TimeInv'  OBVIOUS
<1>1. TypeOK /\ TypeOK' /\ FromHelperOK  BY TypeStep DEF FreezeInv, TypeOK
<1>2. 1..Len(<<>>) = {}  OBVIOUS
<1>3. gens \in Nat  BY <1>1, BoundAssumption DEF TypeOK, HistOK
<1>4. CASE HelperExits
  <2>1. /\ toHelper' = <<>> /\ fromHelper' = <<>> /\ ~ready'
        /\ full' = NoFrame /\ pinned' = NoFrame /\ UNCHANGED <<live, display, gens>>
    BY <1>4 DEF HelperExits, shown
  <2> QED  BY <1>2, <1>3, <2>1 DEF NoFrame, TimeInv, CountedInv, RecordsInv, AskedInv, NewestInv
<1>5. CASE HelperStarts
  <2> DEFINE c == [op |-> "scope", groups |-> scopeKey[1], frozen |-> FALSE]
  <2>1. /\ toHelper' = <<c>> /\ fromHelper' = <<>> /\ ~ready'
        /\ full' = NoFrame /\ pinned' = NoFrame /\ UNCHANGED <<live, display, gens>>
    BY <1>1, <1>5 DEF HelperStarts, FreshHelper, FromHelperOK, shown, hist
  <2>2. ~IsFreeze(c)  BY DEF IsFreeze
  <2> HIDE DEF c
  <2>3. 1..Len(<<c>>) = {1} /\ <<c>>[1] = c  OBVIOUS
  <2> QED  BY <1>2, <1>3, <2>1, <2>2, <2>3 DEF NoFrame, TimeInv, CountedInv, RecordsInv, AskedInv, NewestInv
<1>6. CASE Onwards /\ (Reads \/ Writes)
  <2>1. CountedInv' /\ RecordsInv' /\ NewestInv'  BY <1>1, <1>6, ReadsTime, WritesTime
  <2>2. AskedInv'  BY <1>6, StepAskedInv
  <2> QED  BY <2>1, <2>2 DEF TimeInv
<1> QED  BY <1>1, <1>4, <1>5, <1>6, StepTimes DEF TimeInv

\* A view becomes frozen at what it shows or at a later sample.
LEMMA FreezesLater ==
  ASSUME FreezeInv, TimeInv, Freezes
  PROVE  display'.gen >= display.gen
<1>1. 1 \in 1..Len(fromHelper) /\ Head(fromHelper) = fromHelper[1]
  BY TailShifts DEF Freezes, FreezeInv, TypeOK, FromHelperOK
<1>2. display.gen <= Head(fromHelper).frame.gen /\ display' = Head(fromHelper).frame
  BY <1>1 DEF Freezes, TimeInv, NewestInv
<1>3. display.gen \in Nat /\ Head(fromHelper).frame.gen \in Nat
  <2>1. Head(fromHelper) \in Records  BY <1>1 DEF FreezeInv, TypeOK, FromHelperOK
  <2>2. Head(fromHelper).frame \in Frames  BY <2>1, FrameGenTyped DEF Freezes, IsResult
  <2> QED  BY <2>2, BoundAssumption DEF FreezeInv, TypeOK, ShownOK, Frames
<1> QED  BY <1>2, <1>3

\* Every step of the protocol is a step of the contract, or changes nothing that it names.
LEMMA StepContract ==
  ASSUME FreezeInv, TimeInv, FreezeInv', [Next]_vars
  PROVE  [Contract!Next]_<<frozen, display.gen, IF detail.pinned THEN detail.gen ELSE 0>>
<1> DEFINE pages == IF detail.pinned THEN detail.gen ELSE 0
<1>1. frozen \in BOOLEAN /\ frozen' \in BOOLEAN  BY DEF FreezeInv, TypeOK, NavOK
<1>2. display.gen \in Nat /\ display'.gen \in Nat /\ pages' \in Nat
  BY BoundAssumption DEF FreezeInv, TypeOK, ShownOK, Frames, Details
<1>3. CASE ~frozen'
  <2>1. frozen' = FALSE  BY <1>1, <1>3
  <2>2. Contract!Follow  BY <1>2, <2>1 DEF Contract!Follow
  <2> QED  BY <2>2 DEF Contract!Next
<1>4. CASE frozen /\ frozen'
  <2>1. display'.gen = display.gen  BY <1>4, FrozenStep
  <2>2. pages' \in {0, display'.gen}  BY <1>4 DEF FreezeInv, FrozenAnswerExact
  <2>3. frozen' = frozen  BY <1>1, <1>4
  <2>4. Contract!Stay  BY <1>4, <2>1, <2>2, <2>3 DEF Contract!Stay
  <2> QED  BY <2>4 DEF Contract!Next
<1>5. CASE ~frozen /\ frozen'
  <2>1. Freezes
    BY <1>5, StepKinds DEF Stays, Thaws, Releases, Asks, Answers, DoFreeze, Loses, view
  <2>2. pages' = 0 /\ display'.gen >= display.gen  BY <2>1, FreezesLater DEF Freezes
  <2>3. frozen' = TRUE  BY <1>1, <1>5
  <2>4. Contract!Freeze  BY <1>2, <1>5, <2>2, <2>3 DEF Contract!Freeze
  <2> QED  BY <2>4 DEF Contract!Next
<1> QED  BY <1>3, <1>4, <1>5

\* The view with its commands, answers, scopes and helpers that come and go implements
\* FreezeContract: it never freezes at an older generation than the one on screen.
THEOREM ImplementsFreezeContract == Spec => FreezeContractSpec
<1>1. Init => Contract!Init
  BY DEF Init, NoFrame, NoDetail, Contract!Init
<1>2. FreezeInv /\ TimeInv /\ FreezeInv' /\ [Next]_vars
        => [Contract!Next]_<<frozen, display.gen, IF detail.pinned THEN detail.gen ELSE 0>>
  BY StepContract
<1>3. FreezeInv /\ TimeInv /\ [Next]_vars => TimeInv'  BY StepTimeInv
<1> QED  BY <1>1, <1>2, <1>3, InitTimeInv, AlwaysFreezeInv, PTL DEF Spec, FreezeContractSpec, Contract!Spec

===============================================================================
