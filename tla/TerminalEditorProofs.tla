------------------------- MODULE TerminalEditorProofs -------------------------
(***************************************************************************)
(* Proofs about the handoff of Git messages, for any clients, terminals,    *)
(* files and users.                                                         *)
(***************************************************************************)
EXTENDS TerminalEditor, TLAPS

(* A client is in one hand at a time: its handler's or its request's.        *)
OneHand == \A c \in Clients : ~ (handler[c] # "none" /\ c \in requests)

Inv == TypeOK /\ RequestsTracked /\ OneHand

-----------------------------------------------------------------------------
(* What the actions do to the part of the state the requests live in.       *)

TrackedVars == <<answer, handler, requests, app, sent, asks, completing>>

(* Nothing is done to the requests. *)
Aside == UNCHANGED TrackedVars

(* The tab of path p closes, and its requests are completed. *)
HandsOver(p) ==
    /\ completing' = completing \cup asks[p]
    /\ asks' = [asks EXCEPT ![p] = {}]
    /\ UNCHANGED <<answer, handler, requests, app, sent>>

(* CloseTab and SaveReturns close the tab or leave the requests alone. *)
LEMMA TabEffect ==
    ASSUME NEW p \in Paths, CloseTab(p) \/ SaveReturns(p)
    PROVE  Aside \/ HandsOver(p)
<1>1. CASE CloseTab(p)
  BY <1>1 DEF CloseTab, FinishClosing, Save, Completed, Aside, TrackedVars, HandsOver, main
<1>2. CASE SaveReturns(p)
  BY <1>2 DEF SaveReturns, FinishClosing, Completed, Aside, TrackedVars, HandsOver, main
<1>3. QED BY <1>1, <1>2

(* The steps of Next that are about no request. *)
LEMMA AsideEffect ==
    ASSUME \/ \E t \in Terminals : TerminalExits(t)
           \/ Render \/ ChangeAutosave
           \/ \E call \in opening : Open(call) \/ OpenFails(call)
           \/ \E write \in stray : StrayEnds(write)
           \/ \E p \in Paths : OpenByHand(p) \/ Loaded(p) \/ SaveTab(p) \/ SaveFails(p)
                               \/ \E e \in Typed : Type(p, e)
    PROVE  Aside
<1>1. ASSUME NEW t \in Terminals, TerminalExits(t) PROVE Aside
  BY <1>1 DEF TerminalExits, Aside, TrackedVars, renderer
<1>2. CASE Render
  BY <1>2 DEF Render, Aside, TrackedVars, main
<1>3. CASE ChangeAutosave
  BY <1>3 DEF ChangeAutosave, Aside, TrackedVars, main
<1>4. ASSUME NEW call \in opening, Open(call) \/ OpenFails(call) PROVE Aside
  BY <1>4 DEF Open, OpenFails, Aside, TrackedVars, main
<1>5. ASSUME NEW write \in stray, StrayEnds(write) PROVE Aside
  BY <1>5 DEF StrayEnds, Aside, TrackedVars, main
<1>6. ASSUME NEW p \in Paths,
             OpenByHand(p) \/ Loaded(p) \/ SaveTab(p) \/ SaveFails(p)
               \/ \E e \in Typed : Type(p, e)
      PROVE  Aside
  BY <1>6 DEF OpenByHand, Loaded, SaveTab, SaveFails, Type, Aside, TrackedVars, main
<1>7. QED BY <1>1, <1>2, <1>3, <1>4, <1>5, <1>6

-----------------------------------------------------------------------------
(* Requests are tracked, action by action.  An answer changes only while the *)
(* client waits, and it is "ok" only where Complete gives it.                *)

Tracked == RequestsTracked /\ OneHand

Stands ==
    \A c \in Clients :
        /\ answer[c] \in {"ok", "failed"} => answer'[c] = answer[c]
        /\ answer[c] # "ok" /\ answer'[c] = "ok" => c \in completing /\ c \in requests

LEMMA AskTracked ==
    ASSUME TypeOK, Tracked, NEW d \in Clients, Ask(d)
    PROVE  Tracked' /\ Stands
BY ClientsAssumption
   DEF Ask, TypeOK, Tracked, RequestsTracked, OneHand, Stands, Waiting, renderer

LEMMA CheckTracked ==
    ASSUME TypeOK, Tracked, NEW d \in Clients, Check(d) \/ Refuse(d)
    PROVE  Tracked' /\ Stands
BY DEF Check, Refuse, TypeOK, Tracked, RequestsTracked, OneHand, Stands, Waiting, renderer

LEMMA RegisterTracked ==
    ASSUME TypeOK, Tracked, NEW d \in Clients, Register(d)
    PROVE  Tracked' /\ Stands
BY DEF Register, TypeOK, Tracked, RequestsTracked, OneHand, Stands, Waiting

LEMMA CompleteTracked ==
    ASSUME TypeOK, Tracked, NEW d \in Clients, Complete(d)
    PROVE  Tracked' /\ Stands
BY DEF Complete, Answered, TypeOK, Tracked, RequestsTracked, OneHand, Stands, Waiting

LEMMA ReceiveTracked ==
    ASSUME TypeOK, Tracked, NEW d \in Clients, Receive(d)
    PROVE  Tracked' /\ Stands
BY ClientsAssumption
   DEF Receive, AskedAlso, TypeOK, Tracked, RequestsTracked, OneHand, Stands, Waiting, main

LEMMA CloseTerminalTracked ==
    ASSUME TypeOK, Tracked, NEW t \in Terminals, CloseTerminal(t)
    PROVE  Tracked' /\ Stands
BY DEF CloseTerminal, Answered, RequestsOf, TypeOK, Tracked, RequestsTracked, OneHand, Stands,
       Waiting, renderer

LEMMA WindowTracked ==
    ASSUME TypeOK, Tracked, WindowClosed
    PROVE  Tracked' /\ Stands
BY DEF WindowClosed, Answered, RequestsOf, TypeOK, Tracked, RequestsTracked, OneHand, Stands,
       Waiting

LEMMA QuitTracked ==
    ASSUME TypeOK, Tracked, BeforeQuit \/ ProcessExits
    PROVE  Tracked' /\ Stands
BY DEF BeforeQuit, ProcessExits, Answered, TypeOK, Tracked, RequestsTracked, OneHand, Stands,
       Waiting, renderer

LEMMA AsideTracked ==
    ASSUME TypeOK, Tracked, Aside
    PROVE  Tracked' /\ Stands
BY DEF Aside, TrackedVars, Tracked, RequestsTracked, OneHand, Stands, Waiting

LEMMA HandsOverTracked ==
    ASSUME TypeOK, Tracked, NEW p \in Paths, HandsOver(p)
    PROVE  Tracked' /\ Stands
BY ClientsAssumption
   DEF HandsOver, TypeOK, Tracked, RequestsTracked, OneHand, Stands, Waiting

LEMMA StepTracked ==
    ASSUME TypeOK, Tracked, [Next]_vars
    PROVE  Tracked' /\ Stands
<1>1. ASSUME NEW c \in Clients,
             Ask(c) \/ Check(c) \/ Refuse(c) \/ Register(c) \/ Complete(c) \/ Receive(c)
      PROVE  Tracked' /\ Stands
  BY <1>1, AskTracked, CheckTracked, RegisterTracked, CompleteTracked, ReceiveTracked
<1>2. ASSUME NEW t \in Terminals, CloseTerminal(t)
      PROVE  Tracked' /\ Stands
  BY <1>2, CloseTerminalTracked
<1>3. CASE WindowClosed \/ BeforeQuit \/ ProcessExits
  BY <1>3, WindowTracked, QuitTracked
<1>4. ASSUME NEW p \in Paths, CloseTab(p) \/ SaveReturns(p)
      PROVE  Tracked' /\ Stands
  BY <1>4, TabEffect, AsideTracked, HandsOverTracked
<1>5. CASE \/ \E t \in Terminals : TerminalExits(t)
           \/ Render \/ ChangeAutosave
           \/ \E call \in opening : Open(call) \/ OpenFails(call)
           \/ \E write \in stray : StrayEnds(write)
           \/ \E p \in Paths : OpenByHand(p) \/ Loaded(p) \/ SaveTab(p) \/ SaveFails(p)
                               \/ \E e \in Typed : Type(p, e)
  BY <1>5, AsideEffect, AsideTracked
<1>6. CASE UNCHANGED vars
  BY <1>6, AsideTracked DEF vars, Aside, TrackedVars
<1>7. QED BY <1>1, <1>2, <1>3, <1>4, <1>5, <1>6 DEF Next

-----------------------------------------------------------------------------
(* Types, action by action: what each leaves of the main process, of the    *)
(* renderer and of the editors keeps its shape.                             *)

Editors ==
    [at : {"none", "loading", "ready", "unreadable"}, content : Texts, saved : Texts,
     dirty : BOOLEAN, timer : BOOLEAN, saving : {"no", "saving", "closing"}, text : Texts]

MainType ==
    /\ disk \in [Paths -> Texts]
    /\ answer \in [Clients -> {"idle", "waiting", "ok", "failed"}]
    /\ handler \in [Clients -> {"none", "accepted", "checked"}]
    /\ session \in [Terminals -> BOOLEAN]
    /\ requests \subseteq Clients
    /\ app \in [window : BOOLEAN, quitting : BOOLEAN]
    /\ failures \in 0..MaxFailures

RendererType ==
    /\ sent \subseteq Clients /\ completing \subseteq Clients
    /\ asks \in [Paths -> SUBSET Clients]
    /\ opening \subseteq [client : Clients, list : SUBSET Paths]
    /\ tabs \subseteq Paths /\ watched \subseteq Paths
    /\ editor \in [Paths -> Editors]
    /\ stray \subseteq [path : Paths, text : Texts]
    /\ autosave \in BOOLEAN

LEMMA TypeSplit == TypeOK <=> MainType /\ RendererType
BY DEF TypeOK, MainType, RendererType, Editors

LEMMA TypeSplitNext == TypeOK' <=> MainType' /\ RendererType'
BY DEF TypeOK, MainType, RendererType, Editors

LEMMA WritesType ==
    ASSUME RendererType, NEW paths \in SUBSET Paths
    PROVE  WritesOf(paths) \subseteq [path : Paths, text : Texts]
BY DEF WritesOf, RendererType, Editors

LEMMA ClosedType == Closed \in Editors
BY DEF Closed, Editors, Texts

(* The main process moves on; the renderer gets no more than a message. *)
LEMMA MainStepType ==
    ASSUME MainType, RendererType,
           \/ \E c \in Clients : Ask(c) \/ Check(c) \/ Refuse(c) \/ Register(c) \/ Complete(c)
           \/ \E t \in Terminals : CloseTerminal(t) \/ TerminalExits(t)
           \/ BeforeQuit \/ ProcessExits
    PROVE  MainType' /\ RendererType'
<1>1. ASSUME NEW c \in Clients, Ask(c) PROVE MainType' /\ RendererType'
  BY <1>1, ClientsAssumption DEF Ask, MainType, RendererType, renderer, Texts
<1>2. ASSUME NEW c \in Clients, Check(c) PROVE MainType' /\ RendererType'
  BY <1>2 DEF Check, MainType, RendererType, renderer
<1>3. ASSUME NEW c \in Clients, Refuse(c) PROVE MainType' /\ RendererType'
  BY <1>3, BoundAssumption DEF Refuse, MainType, RendererType, renderer
<1>4. ASSUME NEW c \in Clients, Register(c) PROVE MainType' /\ RendererType'
  BY <1>4 DEF Register, MainType, RendererType
<1>5. ASSUME NEW c \in Clients, Complete(c) PROVE MainType' /\ RendererType'
  BY <1>5 DEF Complete, Answered, MainType, RendererType
<1>6. ASSUME NEW t \in Terminals, CloseTerminal(t) PROVE MainType' /\ RendererType'
  BY <1>6 DEF CloseTerminal, Answered, RequestsOf, MainType, RendererType, renderer
<1>7. ASSUME NEW t \in Terminals, TerminalExits(t) PROVE MainType' /\ RendererType'
  BY <1>7 DEF TerminalExits, MainType, RendererType, renderer
<1>8. CASE BeforeQuit
  BY <1>8 DEF BeforeQuit, Answered, MainType, RendererType, renderer
<1>9. CASE ProcessExits
  BY <1>9 DEF ProcessExits, MainType, RendererType, renderer
<1>10. QED BY <1>1, <1>2, <1>3, <1>4, <1>5, <1>6, <1>7, <1>8, <1>9

LEMMA WindowType ==
    ASSUME MainType, RendererType, WindowClosed
    PROVE  MainType' /\ RendererType'
<1>1. MainType'
  BY DEF WindowClosed, Answered, RequestsOf, MainType
<1>2. RendererType'
  BY ClosedType, WritesType DEF WindowClosed, RendererType
<1>3. QED BY <1>1, <1>2

LEMMA MountedType ==
    ASSUME RendererType, NEW shown
    PROVE  Mounted(shown) \in [Paths -> Editors]
<1>1. [Closed EXCEPT !.at = "loading"] \in Editors
  BY DEF Closed, Editors, Texts
<1>2. ASSUME NEW p \in Paths
      PROVE  [editor[p] EXCEPT !.timer = FALSE, !.saving = "no", !.text = {}] \in Editors
  BY DEF RendererType, Editors, Texts
<1>3. QED BY <1>1, <1>2, ClosedType DEF Mounted, RendererType

LEMMA ShownType ==
    ASSUME RendererType, NEW list \in SUBSET Paths, Shown(list)
    PROVE  /\ tabs' \subseteq Paths /\ watched' \subseteq Paths
           /\ editor' \in [Paths -> Editors]
           /\ stray' \subseteq [path : Paths, text : Texts]
BY MountedType, WritesType DEF Shown, SaveBeforeClose, RendererType

(* The steps of the renderer that do not touch a text. *)
LEMMA TabStepType ==
    ASSUME MainType, RendererType,
           \/ \E c \in Clients : Receive(c)
           \/ \E call \in opening : Open(call) \/ OpenFails(call)
           \/ \E p \in Paths : OpenByHand(p)
           \/ Render \/ ChangeAutosave
    PROVE  MainType' /\ RendererType'
<1>1. ASSUME NEW c \in Clients, Receive(c) PROVE MainType' /\ RendererType'
  BY <1>1, ClientsAssumption DEF Receive, AskedAlso, MainType, RendererType, main
<1>2. ASSUME NEW call \in opening, Open(call) \/ OpenFails(call)
      PROVE  MainType' /\ RendererType'
  <2>1. OpenState(call.list, PathOf[call.client]) \in SUBSET Paths
    BY ClientsAssumption DEF RendererType, OpenState
  <2>2. CASE Open(call)
    BY <2>1, <2>2, ShownType DEF Open, MainType, RendererType, main
  <2>3. CASE OpenFails(call)
    BY <2>3, BoundAssumption DEF OpenFails, MainType, RendererType, main
  <2>4. QED BY <1>2, <2>2, <2>3
<1>3. ASSUME NEW p \in Paths, OpenByHand(p) PROVE MainType' /\ RendererType'
  <2>1. OpenState(tabs, p) \in SUBSET Paths
    BY DEF RendererType, OpenState
  <2>2. QED BY <1>3, <2>1, ShownType DEF OpenByHand, MainType, RendererType, main
<1>4. CASE Render
  BY <1>4 DEF Render, SaveBeforeClose, MainType, RendererType, main
<1>5. CASE ChangeAutosave
  <2>1. autosave' \in BOOLEAN
    BY <1>5 DEF ChangeAutosave
  <2>2. ASSUME NEW p \in Paths PROVE editor'[p] \in Editors
    <3>1. editor'[p] = [editor[p] EXCEPT !.timer = @ /\ ~autosave]
      BY <1>5, Zenon DEF ChangeAutosave
    <3>2. (editor[p].timer /\ ~autosave) \in BOOLEAN
      OBVIOUS
    <3>3. \A b \in BOOLEAN : [editor[p] EXCEPT !.timer = b] \in Editors
      BY DEF RendererType, Editors
    <3>4. QED BY <3>1, <3>2, <3>3, Zenon
  <2>3. editor' \in [Paths -> Editors]
    BY <1>5, <2>2, Zenon DEF ChangeAutosave
  <2>4. QED
    BY <1>5, <2>1, <2>3 DEF ChangeAutosave, SaveBeforeClose, MainType, RendererType, main
<1>6. QED BY <1>1, <1>2, <1>3, <1>4, <1>5

(* An editor that starts to save, or whose text was not written. *)
LEMMA SaveType ==
    ASSUME RendererType, NEW p \in Paths, NEW why \in {"saving", "closing"}, Save(p, why)
    PROVE  editor' \in [Paths -> Editors]
<1> DEFINE e == [editor[p] EXCEPT !.saving = why, !.text = editor[p].content, !.timer = FALSE]
<1>1. editor[p] \in Editors
  BY DEF RendererType
<1>2. e \in Editors
  BY <1>1 DEF Editors
<1>3. editor' = [editor EXCEPT ![p] = e]
  BY <1>1 DEF Save, RendererType, Editors
<1> HIDE DEF e
<1>4. QED BY <1>2, <1>3 DEF RendererType

LEMMA NotSavingType ==
    ASSUME NEW e \in Editors
    PROVE  NotSaving(e) \in Editors
BY DEF NotSaving, Editors, Texts

LEMMA SavedType ==
    ASSUME NEW e \in Editors
    PROVE  Saved(e) \in Editors
<1> DEFINE changed == e.content # e.text
<1> DEFINE timer == NotSaving(e).timer \/ (changed /\ autosave)
<1>1. timer \in BOOLEAN /\ changed \in BOOLEAN
  OBVIOUS
<1>2. Saved(e) = [NotSaving(e) EXCEPT !.saved = e.text, !.dirty = changed, !.timer = timer]
  BY Zenon DEF Saved
<1>3. e.text \in Texts
  BY DEF Editors
<1> HIDE DEF changed, timer
<1>4. QED BY <1>1, <1>2, <1>3, NotSavingType DEF Editors

LEMMA FinishClosingType ==
    ASSUME RendererType, NEW p \in Paths, FinishClosing(p)
    PROVE  /\ completing' \subseteq Clients
           /\ asks' \in [Paths -> SUBSET Clients]
           /\ tabs' \subseteq Paths /\ watched' \subseteq Paths
           /\ editor' \in [Paths -> Editors]
BY ClosedType DEF FinishClosing, Completed, SaveBeforeClose, RendererType

(* The steps of the renderer that are about the text of one tab. *)
LEMMA TextStepType ==
    ASSUME MainType, RendererType, NEW p \in Paths,
           \/ Loaded(p) \/ SaveTab(p) \/ CloseTab(p) \/ SaveReturns(p) \/ SaveFails(p)
           \/ \E e \in Typed : Type(p, e)
    PROVE  MainType' /\ RendererType'
<1> USE DEF main
<1>1. CASE Loaded(p)
  <2>1. \A text \in Texts :
            [Closed EXCEPT !.at = "ready", !.content = text, !.saved = text] \in Editors
    BY DEF Closed, Editors, Texts
  <2>2. [Closed EXCEPT !.at = "unreadable"] \in Editors
    BY DEF Closed, Editors, Texts
  <2>3. editor' \in [Paths -> Editors]
    <3>1. disk[p] \in Texts
      BY DEF MainType
    <3>2. editor' = [editor EXCEPT ![p] = [Closed EXCEPT !.at = "ready",
                                             !.content = disk[p], !.saved = disk[p]]]
          \/ editor' = [editor EXCEPT ![p] = [Closed EXCEPT !.at = "unreadable"]]
      BY <1>1, Zenon DEF Loaded
    <3>3. \E e \in Editors : editor' = [editor EXCEPT ![p] = e]
      BY <2>1, <2>2, <3>1, <3>2, Zenon
    <3>4. QED BY <3>3 DEF RendererType
  <2>4. failures' \in 0..MaxFailures
    BY <1>1, BoundAssumption DEF Loaded, MainType
  <2>5. /\ UNCHANGED <<disk, answer, sent, completing, asks, opening, tabs, watched, stray,
                       autosave>>
        /\ UNCHANGED main
    BY <1>1, Zenon DEF Loaded
  <2>6. QED BY <2>3, <2>4, <2>5 DEF MainType, RendererType
<1>2. CASE SaveTab(p)
  BY <1>2, SaveType DEF SaveTab, AutosaveFires, UserSaves, MainType, RendererType
<1>3. CASE CloseTab(p)
  <2>1. WritesOf({p}) \subseteq [path : Paths, text : Texts]
    BY WritesType
  <2>2. QED BY <1>3, <2>1, SaveType, FinishClosingType DEF CloseTab, MainType, RendererType
<1>4. CASE SaveReturns(p)
  <2>1. disk' \in [Paths -> Texts]
    BY <1>4 DEF SaveReturns, MainType, RendererType, Editors
  <2>2. CASE editor[p].saving = "closing"
    BY <1>4, <2>1, <2>2, FinishClosingType DEF SaveReturns, MainType, RendererType
  <2>3. CASE editor[p].saving # "closing"
    <3>1. editor[p] \in Editors
      BY DEF RendererType
    <3>2. editor' = [editor EXCEPT ![p] = Saved(editor[p])]
      BY <1>4, <2>3 DEF SaveReturns
    <3>3. editor' \in [Paths -> Editors]
      BY <3>1, <3>2, SavedType DEF RendererType
    <3>4. QED BY <1>4, <2>1, <2>3, <3>3 DEF SaveReturns, MainType, RendererType
  <2>4. QED BY <2>2, <2>3
<1>5. CASE SaveFails(p)
  <2>1. editor' \in [Paths -> Editors]
    BY <1>5, NotSavingType DEF SaveFails, RendererType
  <2>2. QED BY <1>5, <2>1, BoundAssumption DEF SaveFails, MainType, RendererType
<1>6. ASSUME NEW e \in Typed, Type(p, e) PROVE MainType' /\ RendererType'
  <2> DEFINE content == editor[p].content \cup {e}
  <2> DEFINE changed == content # editor[p].saved
  <2>1. content \in Texts /\ changed \in BOOLEAN /\ autosave \in BOOLEAN
    BY DEF RendererType, Editors, Texts
  <2>2. editor' = [editor EXCEPT ![p].content = content, ![p].timer = autosave,
                                 ![p].dirty = changed]
    BY <1>6, Zenon DEF Type
  <2> DEFINE typed == [editor[p] EXCEPT !.content = content, !.timer = autosave,
                                        !.dirty = changed]
  <2> HIDE DEF content, changed
  <2>3. editor' \in [Paths -> Editors]
    <3>1. editor[p] \in Editors
      BY DEF RendererType
    <3>2. typed \in Editors
      BY <2>1, <3>1 DEF Editors
    <3>3. editor' = [editor EXCEPT ![p] = typed]
      BY <2>2, <3>1 DEF RendererType, Editors
    <3> HIDE DEF typed
    <3>4. QED BY <3>2, <3>3 DEF RendererType
  <2>4. QED BY <1>6, <2>3 DEF Type, SaveBeforeClose, MainType, RendererType
<1>7. QED BY <1>1, <1>2, <1>3, <1>4, <1>5, <1>6

LEMMA StrayType ==
    ASSUME MainType, RendererType, NEW write \in stray, StrayEnds(write)
    PROVE  MainType' /\ RendererType'
BY BoundAssumption DEF StrayEnds, MainType, RendererType, main

LEMMA StepType ==
    ASSUME TypeOK, [Next]_vars
    PROVE  TypeOK'
<1>1. MainType /\ RendererType
  BY TypeSplit
<1>2. CASE Next
  BY <1>1, <1>2, MainStepType, WindowType, TabStepType, TextStepType, StrayType, TypeSplitNext
     DEF Next
<1>3. CASE UNCHANGED vars
  BY <1>1, <1>3, TypeSplitNext DEF vars, MainType, RendererType
<1>4. QED BY <1>2, <1>3

-----------------------------------------------------------------------------
LEMMA InitInv == Init => Inv
BY BoundAssumption
   DEF Init, Inv, TypeOK, RequestsTracked, OneHand, Waiting, Closed, Texts

LEMMA InvAlways == Spec => []Inv
<1>1. Inv /\ [Next]_vars => Inv'
  BY StepType, StepTracked DEF Inv, Tracked
<1>2. QED BY InitInv, <1>1, PTL DEF Spec

(* The types of the variables. *)
THEOREM TypeCorrect == Spec => []TypeOK
<1>1. Inv => TypeOK
  BY DEF Inv
<1>2. QED BY InvAlways, <1>1, PTL

(* Git never waits for an answer that nobody owes it: between the steps of a *)
(* handler, a registration, a message and the close of a tab no request is  *)
(* lost, whoever closes what.                                               *)
THEOREM TrackedAlways == Spec => []RequestsTracked
<1>1. Inv => RequestsTracked
  BY DEF Inv
<1>2. QED BY InvAlways, <1>1, PTL

(* An answer stands, and only the close of a tab sends "ok". *)
THEOREM AnswersAlways == Spec => AnswersStand
<1>1. Inv /\ [Next]_vars =>
        [\A c \in Clients :
           /\ answer[c] \in {"ok", "failed"} => answer'[c] = answer[c]
           /\ answer[c] # "ok" /\ answer'[c] = "ok" => c \in completing /\ c \in requests]_vars
  BY StepTracked DEF Inv, Tracked, Stands
<1>2. QED BY InvAlways, <1>1, PTL DEF Spec, AnswersStand

-----------------------------------------------------------------------------
(* A request loses its tab, or the save before its tab closes, only by the   *)
(* end of a call that opens a file: the other steps only add tabs, and the   *)
(* one that closes a tab completes its requests.                             *)

OpeningEnds(c) ==
    \E call \in opening \ opening' :
       \/ call.client = c /\ tabs' = tabs
       \/ PathOf[call.client] # PathOf[c] /\ PathOf[c] \notin call.list

(* The steps that leave tabs, calls and requests as they were. *)
SameTabs == UNCHANGED <<asks, opening, tabs>> /\ (watched' = watched \/ watched' = SaveBeforeClose(asks))

LEMMA SameTabsEffect ==
    ASSUME \/ \E c \in Clients : Ask(c) \/ Check(c) \/ Refuse(c) \/ Register(c) \/ Complete(c)
           \/ \E t \in Terminals : CloseTerminal(t) \/ TerminalExits(t)
           \/ BeforeQuit \/ ProcessExits \/ Render \/ ChangeAutosave
           \/ \E write \in stray : StrayEnds(write)
           \/ \E p \in Paths : Loaded(p) \/ SaveTab(p) \/ SaveFails(p) \/ \E e \in Typed : Type(p, e)
           \/ UNCHANGED vars
    PROVE  SameTabs
<1>1. ASSUME NEW c \in Clients, Ask(c) \/ Check(c) \/ Refuse(c) \/ Register(c) \/ Complete(c)
      PROVE  SameTabs
  BY <1>1 DEF Ask, Check, Refuse, Register, Complete, SameTabs, renderer
<1>2. ASSUME NEW t \in Terminals, CloseTerminal(t) \/ TerminalExits(t) PROVE SameTabs
  BY <1>2 DEF CloseTerminal, TerminalExits, SameTabs, renderer
<1>3. CASE BeforeQuit \/ ProcessExits \/ Render \/ ChangeAutosave
  BY <1>3 DEF BeforeQuit, ProcessExits, Render, ChangeAutosave, SameTabs, renderer
<1>4. ASSUME NEW write \in stray, StrayEnds(write) PROVE SameTabs
  BY <1>4 DEF StrayEnds, SameTabs
<1>5. ASSUME NEW p \in Paths, Loaded(p) \/ SaveTab(p) \/ SaveFails(p) \/ \E e \in Typed : Type(p, e)
      PROVE  SameTabs
  BY <1>5 DEF Loaded, SaveTab, SaveFails, Type, SameTabs
<1>6. CASE UNCHANGED vars
  BY <1>6 DEF vars, SameTabs
<1>7. QED BY <1>1, <1>2, <1>3, <1>4, <1>5, <1>6

LEMMA SameTabsStrand ==
    ASSUME TypeOK, SameTabs, NEW c \in Clients, Stranded(c)'
    PROVE  Stranded(c)
BY ClientsAssumption DEF SameTabs, Stranded, Noted, SaveBeforeClose, TypeOK

LEMMA ReceiveStrands ==
    ASSUME TypeOK, NEW d \in Clients, Receive(d), NEW c \in Clients, Stranded(c)'
    PROVE  Stranded(c)
<1> DEFINE call == [client |-> d, list |-> tabs]
<1>1. call \in opening' /\ call.client = d /\ opening \subseteq opening'
  BY DEF Receive
<1>2. c # d
  BY <1>1 DEF Stranded, Noted
<1>3. c \in asks[PathOf[c]] /\ UNCHANGED <<tabs, watched>>
  BY <1>2, ClientsAssumption DEF Receive, AskedAlso, Stranded, Noted, TypeOK
<1>4. QED BY <1>1, <1>3 DEF Stranded, Noted

LEMMA WindowStrands ==
    ASSUME TypeOK, WindowClosed, NEW c \in Clients
    PROVE  ~ Stranded(c)'
BY ClientsAssumption DEF WindowClosed, Stranded, Noted

LEMMA OpenStrands ==
    ASSUME TypeOK, NEW call \in opening, Open(call) \/ OpenFails(call), NEW c \in Clients,
           Stranded(c)'
    PROVE  Stranded(c) \/ OpeningEnds(c)
<1>1. call \in opening \ opening' /\ opening' = opening \ {call} /\ asks' = asks
  BY DEF Open, OpenFails
<1>2. c \in asks[PathOf[c]]
  BY <1>1 DEF Stranded, Noted
<1>3. CASE UNCHANGED <<tabs, watched>>
  BY <1>1, <1>3 DEF Stranded, Noted, OpeningEnds
<1>4. CASE Shown(OpenState(call.list, PathOf[call.client]))
  <2>1. PathOf[c] \in watched'
    BY <1>2, <1>4, ClientsAssumption DEF Shown, SaveBeforeClose
  <2>2. PathOf[c] \notin call.list \cup {PathOf[call.client]}
    BY <1>4, <2>1 DEF Shown, OpenState, Stranded
  <2>3. QED BY <1>1, <2>2 DEF OpeningEnds
<1>5. QED BY <1>3, <1>4 DEF Open, OpenFails

LEMMA OpenByHandStrands ==
    ASSUME TypeOK, NEW p \in Paths, OpenByHand(p), NEW c \in Clients, Stranded(c)'
    PROVE  Stranded(c)
BY ClientsAssumption
   DEF OpenByHand, Shown, OpenState, SaveBeforeClose, Stranded, Noted, TypeOK

LEMMA FinishClosingStrands ==
    ASSUME TypeOK, NEW p \in Paths, FinishClosing(p), opening' = opening, NEW c \in Clients,
           Stranded(c)'
    PROVE  Stranded(c)
<1>1. PathOf[c] \in Paths
  BY ClientsAssumption
<1>2. PathOf[c] # p /\ c \in asks'[PathOf[c]] /\ asks'[PathOf[c]] = asks[PathOf[c]]
  BY <1>1 DEF FinishClosing, Stranded, Noted, TypeOK
<1>3. PathOf[c] \in watched'
  BY <1>1, <1>2 DEF FinishClosing, SaveBeforeClose
<1>4. PathOf[c] \notin tabs
  BY <1>2, <1>3 DEF FinishClosing, Stranded
<1>5. QED BY <1>2, <1>4 DEF Stranded, Noted

LEMMA CloseStrands ==
    ASSUME TypeOK, NEW p \in Paths, CloseTab(p) \/ SaveReturns(p), NEW c \in Clients, Stranded(c)'
    PROVE  Stranded(c)
<1>1. \/ FinishClosing(p) /\ opening' = opening
      \/ SameTabs
  BY DEF CloseTab, SaveReturns, SameTabs
<1>2. QED BY <1>1, SameTabsStrand, FinishClosingStrands

(* Whatever the user, the terminals and the files do, a request that has its *)
(* tab keeps it until it is completed, but for the two ways an opening fails *)
(* it.                                                                       *)
THEOREM StrandedAlways == Spec => StrandedOnlyByOpening
<1>1. ASSUME TypeOK, [Next]_vars, NEW c \in Clients, Stranded(c)', ~Stranded(c)
      PROVE  OpeningEnds(c)
  <2>1. CASE \E d \in Clients : Receive(d)
    BY <1>1, <2>1, ReceiveStrands
  <2>2. CASE WindowClosed
    BY <1>1, <2>2, WindowStrands
  <2>3. CASE \E call \in opening : Open(call) \/ OpenFails(call)
    BY <1>1, <2>3, OpenStrands
  <2>4. CASE \E p \in Paths : OpenByHand(p) \/ CloseTab(p) \/ SaveReturns(p)
    BY <1>1, <2>4, OpenByHandStrands, CloseStrands
  <2>5. CASE SameTabs
    BY <1>1, <2>5, SameTabsStrand
  <2>6. QED BY <1>1, <2>1, <2>2, <2>3, <2>4, <2>5, SameTabsEffect DEF Next
<1>2. TypeOK /\ [Next]_vars =>
        [\A c \in Clients : Stranded(c)' /\ ~Stranded(c) =>
            \E call \in opening \ opening' :
               \/ call.client = c /\ tabs' = tabs
               \/ PathOf[call.client] # PathOf[c] /\ PathOf[c] \notin call.list]_vars
  BY <1>1 DEF OpeningEnds
<1>3. QED BY TypeCorrect, <1>2, PTL DEF Spec, StrandedOnlyByOpening
-----------------------------------------------------------------------------
(* An editor is sound: its texts only grow, what it saved lies within what   *)
(* it shows, and while it saves it has something to save.                    *)

Sound(e) ==
    /\ e.saved \subseteq e.content
    /\ e.at = "ready" => (e.dirty <=> e.content # e.saved)
    /\ e.at # "ready" => e.saving = "no" /\ e.content = e.saved
    /\ e.saving # "no" => e.text \subseteq e.content /\ e.content # e.saved

AsksLocated == \A p \in Paths : \A c \in asks[p] : PathOf[c] = p

Tidy == AsksLocated /\ \A p \in Paths : Sound(editor[p])

Handed ==
    \A c \in completing' \ completing :
       LET p == PathOf[c]
           e == editor[p]
           shown == IF e.saving = "closing" THEN e.text ELSE e.content
       IN e.at = "ready" /\ p \in watched /\ (e.saving = "closing" \/ disk[p] = e.saved)
          => disk'[p] = shown

LEMMA ClosedSound ==
    ASSUME NEW at \in {"none", "loading", "unreadable"}
    PROVE  Sound([Closed EXCEPT !.at = at])
BY DEF Sound, Closed

LEMMA NoneSound == Sound(Closed)
BY DEF Sound, Closed

(* The steps that are about no editor, and complete no request. *)
NoEditor == UNCHANGED editor /\ AsksLocated' /\ completing' \subseteq completing

LEMMA NoEditorEffect ==
    ASSUME TypeOK, AsksLocated,
           \/ \E c \in Clients : Ask(c) \/ Check(c) \/ Refuse(c) \/ Register(c) \/ Complete(c)
                                 \/ Receive(c)
           \/ \E t \in Terminals : CloseTerminal(t) \/ TerminalExits(t)
           \/ BeforeQuit \/ ProcessExits \/ Render
           \/ \E call \in opening : OpenFails(call)
           \/ \E write \in stray : StrayEnds(write)
           \/ UNCHANGED vars
    PROVE  NoEditor
<1> USE DEF NoEditor, AsksLocated
<1>1. ASSUME NEW c \in Clients, Ask(c) \/ Check(c) \/ Refuse(c) \/ Register(c) \/ Complete(c)
      PROVE  NoEditor
  BY <1>1 DEF Ask, Check, Refuse, Register, Complete, renderer
<1>2. ASSUME NEW c \in Clients, Receive(c) PROVE NoEditor
  BY <1>2, ClientsAssumption DEF Receive, AskedAlso, TypeOK
<1>3. ASSUME NEW t \in Terminals, CloseTerminal(t) \/ TerminalExits(t) PROVE NoEditor
  BY <1>3 DEF CloseTerminal, TerminalExits, renderer
<1>4. CASE BeforeQuit \/ ProcessExits \/ Render
  BY <1>4 DEF BeforeQuit, ProcessExits, Render, renderer
<1>5. ASSUME NEW call \in opening, OpenFails(call) PROVE NoEditor
  BY <1>5 DEF OpenFails
<1>6. ASSUME NEW write \in stray, StrayEnds(write) PROVE NoEditor
  BY <1>6 DEF StrayEnds
<1>7. CASE UNCHANGED vars
  BY <1>7 DEF vars
<1>8. QED BY <1>1, <1>2, <1>3, <1>4, <1>5, <1>6, <1>7

LEMMA NoEditorTidy ==
    ASSUME Tidy, NoEditor
    PROVE  Tidy' /\ Handed
BY DEF Tidy, NoEditor, Handed, Sound

(* A step that changes the editor of p at most, and completes nothing. *)
LEMMA OneEditorTidy ==
    ASSUME Tidy, NEW p \in Paths, UNCHANGED <<asks, completing>>,
           \A q \in Paths : q # p => editor'[q] = editor[q],
           Sound(editor'[p])
    PROVE  Tidy' /\ Handed
BY DEF Tidy, AsksLocated, Handed, Sound

LEMMA WindowTidy ==
    ASSUME Tidy, WindowClosed
    PROVE  Tidy' /\ Handed
<1>1. \A p \in Paths : editor'[p] = Closed /\ asks'[p] = {}
  BY DEF WindowClosed
<1>2. completing' = {}
  BY DEF WindowClosed
<1>3. QED BY <1>1, <1>2, NoneSound DEF Tidy, AsksLocated, Handed, Sound

LEMMA ShownTidy ==
    ASSUME TypeOK, Tidy, NEW list, Shown(list), UNCHANGED <<asks, completing>>
    PROVE  Tidy' /\ Handed
<1>1. ASSUME NEW p \in Paths PROVE Sound(editor'[p])
  <2> DEFINE kept == [editor[p] EXCEPT !.timer = FALSE, !.saving = "no", !.text = {}]
  <2>1. \/ editor'[p] = [Closed EXCEPT !.at = "loading"]
        \/ editor'[p] = Closed
        \/ editor'[p] = kept
        \/ editor'[p] = editor[p]
    BY DEF Shown, Mounted
  <2>2. Sound(kept)
    BY TypeSplit DEF Tidy, Sound, RendererType, Editors
  <2>3. QED BY <2>1, <2>2, ClosedSound, NoneSound DEF Tidy
<1>2. QED BY <1>1 DEF Tidy, AsksLocated, Handed, Sound

LEMMA AutosaveTidy ==
    ASSUME TypeOK, Tidy, ChangeAutosave
    PROVE  Tidy' /\ Handed
<1>1. ASSUME NEW p \in Paths PROVE Sound(editor'[p])
  <2> DEFINE timer == editor[p].timer /\ ~autosave
  <2>1. editor'[p] = [editor[p] EXCEPT !.timer = timer]
    BY Zenon DEF ChangeAutosave
  <2>2. editor[p] \in Editors
    BY TypeSplit DEF RendererType
  <2> HIDE DEF timer
  <2>3. QED BY <2>1, <2>2 DEF Tidy, Sound, Editors
<1>2. QED BY <1>1 DEF ChangeAutosave, Tidy, AsksLocated, Handed, Sound

LEMMA LoadedTidy ==
    ASSUME TypeOK, Tidy, NEW p \in Paths, Loaded(p)
    PROVE  Tidy' /\ Handed
<1> DEFINE read == [at |-> "ready", content |-> disk[p], saved |-> disk[p], dirty |-> FALSE,
                    timer |-> FALSE, saving |-> "no", text |-> {}]
<1>1. \/ editor' = [editor EXCEPT ![p] = read]
      \/ editor' = [editor EXCEPT ![p] = [Closed EXCEPT !.at = "unreadable"]]
  BY Zenon DEF Loaded, Closed
<1>2. Sound(read)
  BY DEF Sound
<1>3. Sound([Closed EXCEPT !.at = "unreadable"])
  BY ClosedSound
<1> HIDE DEF read
<1>4. Sound(editor'[p]) /\ \A q \in Paths : q # p => editor'[q] = editor[q]
  BY <1>1, <1>2, <1>3, TypeSplit DEF RendererType
<1>5. QED BY <1>4, OneEditorTidy DEF Loaded

LEMMA TypeTidy ==
    ASSUME TypeOK, Tidy, NEW p \in Paths, NEW e \in Typed, Type(p, e)
    PROVE  Tidy' /\ Handed
<1> DEFINE content == editor[p].content \cup {e}
<1> DEFINE changed == content # editor[p].saved
<1>1. editor' = [editor EXCEPT ![p].content = content, ![p].timer = autosave,
                               ![p].dirty = changed]
  BY Zenon DEF Type
<1>2. changed <=> content # editor[p].saved
  OBVIOUS
<1>3. editor[p].content \subseteq content /\ e \in content
  OBVIOUS
<1>4. editor[p].at = "ready" /\ e \notin editor[p].content
  BY DEF Type
<1> HIDE DEF content, changed
<1>5. /\ editor'[p].at = "ready" /\ editor'[p].content = content
      /\ editor'[p].saved = editor[p].saved /\ editor'[p].dirty = changed
      /\ editor'[p].saving = editor[p].saving /\ editor'[p].text = editor[p].text
      /\ \A q \in Paths : q # p => editor'[q] = editor[q]
  BY <1>1, <1>4, TypeSplit DEF RendererType, Editors
<1>6. Sound(editor'[p])
  <2>1. /\ editor[p].saved \subseteq editor[p].content
        /\ editor[p].saving # "no" => editor[p].text \subseteq editor[p].content
    BY DEF Tidy, Sound
  <2>2. content # editor[p].saved
    BY <1>3, <1>4, <2>1
  <2>3. QED BY <1>2, <1>3, <1>5, <2>1, <2>2 DEF Sound
<1>7. QED BY <1>5, <1>6, OneEditorTidy DEF Type

LEMMA SaveTidy ==
    ASSUME TypeOK, Tidy, NEW p \in Paths, NEW why \in {"saving", "closing"}, Save(p, why),
           UNCHANGED <<asks, completing>>
    PROVE  Tidy' /\ Handed
<1>1. /\ editor'[p].at = editor[p].at /\ editor'[p].content = editor[p].content
      /\ editor'[p].saved = editor[p].saved /\ editor'[p].dirty = editor[p].dirty
      /\ editor'[p].saving = why /\ editor'[p].text = editor[p].content
      /\ \A q \in Paths : q # p => editor'[q] = editor[q]
  BY TypeSplit DEF Save, RendererType, Editors
<1>2. editor[p].content # editor[p].saved
  BY DEF Save
<1>3. Sound(editor'[p])
  BY <1>1, <1>2 DEF Tidy, Sound
<1>4. QED BY <1>1, <1>3, OneEditorTidy

LEMMA SaveFailsTidy ==
    ASSUME TypeOK, Tidy, NEW p \in Paths, SaveFails(p)
    PROVE  Tidy' /\ Handed
<1>1. /\ editor'[p].at = editor[p].at /\ editor'[p].content = editor[p].content
      /\ editor'[p].saved = editor[p].saved /\ editor'[p].dirty = editor[p].dirty
      /\ editor'[p].saving = "no"
      /\ \A q \in Paths : q # p => editor'[q] = editor[q]
  BY TypeSplit DEF SaveFails, NotSaving, RendererType, Editors
<1>2. Sound(editor'[p])
  BY <1>1 DEF Tidy, Sound
<1>3. QED BY <1>1, <1>2, OneEditorTidy DEF SaveFails

(* The tab of p closes: what it showed when last rendered with its requests *)
(* is in the file.                                                          *)
LEMMA FinishClosingTidy ==
    ASSUME TypeOK, Tidy, NEW p \in Paths, FinishClosing(p),
           editor[p].saving = "closing" /\ p \in watched => disk'[p] = editor[p].text,
           (editor[p].saving # "closing" /\ p \in watched /\ editor[p].at = "ready"
              /\ disk[p] = editor[p].saved) => disk'[p] = editor[p].content
    PROVE  Tidy' /\ Handed
<1>1. /\ editor'[p] = Closed /\ asks'[p] = {}
      /\ \A q \in Paths : q # p => editor'[q] = editor[q] /\ asks'[q] = asks[q]
      /\ completing' = completing \cup asks[p]
  BY TypeSplit DEF FinishClosing, Completed, RendererType
<1>2. Tidy'
  BY <1>1, NoneSound DEF Tidy, AsksLocated, Sound
<1>3. ASSUME NEW c \in completing' \ completing PROVE PathOf[c] = p
  BY <1>1, <1>3 DEF Tidy, AsksLocated
<1>4. QED BY <1>2, <1>3 DEF Handed

LEMMA CloseTabTidy ==
    ASSUME TypeOK, Tidy, NEW p \in Paths, CloseTab(p)
    PROVE  Tidy' /\ Handed
<1>1. CASE Save(p, "closing") /\ UNCHANGED <<completing, asks, tabs, watched, stray>>
  BY <1>1, SaveTidy
<1>2. CASE FinishClosing(p) /\ p \notin RequiredSaves
  <2>1. disk' = disk
    BY DEF CloseTab
  <2>2. p \in watched => ~editor[p].dirty
    BY <1>2 DEF RequiredSaves
  <2>3. p \in watched /\ editor[p].at = "ready" => editor[p].content = editor[p].saved
    BY <2>2 DEF Tidy, Sound
  <2>4. p \in watched => editor[p].saving = "no"
    BY <2>3 DEF Tidy, Sound
  <2>5. QED BY <1>2, <2>1, <2>3, <2>4, FinishClosingTidy
<1>3. QED BY <1>1, <1>2 DEF CloseTab

LEMMA SaveReturnsTidy ==
    ASSUME TypeOK, Tidy, NEW p \in Paths, SaveReturns(p)
    PROVE  Tidy' /\ Handed
<1>1. disk'[p] = editor[p].text
  BY DEF SaveReturns, TypeOK
<1>2. CASE editor[p].saving = "closing"
  BY <1>1, <1>2, FinishClosingTidy DEF SaveReturns
<1>3. CASE editor[p].saving # "closing"
  <2> DEFINE changed == editor[p].content # editor[p].text
  <2> DEFINE timer == NotSaving(editor[p]).timer \/ (changed /\ autosave)
  <2>1. editor \in [Paths -> Editors] /\ editor[p] \in Editors
    BY TypeSplit DEF RendererType
  <2>2. Saved(editor[p]) = [NotSaving(editor[p]) EXCEPT !.saved = editor[p].text,
                                                        !.dirty = changed, !.timer = timer]
    BY Zenon DEF Saved
  <2>3. changed <=> editor[p].content # editor[p].text
    OBVIOUS
  <2>4. editor'[p] = Saved(editor[p]) /\ \A q \in Paths : q # p => editor'[q] = editor[q]
    BY <1>3, <2>1 DEF SaveReturns
  <2> HIDE DEF changed, timer
  <2>5. /\ editor'[p].at = editor[p].at /\ editor'[p].content = editor[p].content
        /\ editor'[p].saved = editor[p].text /\ editor'[p].saving = "no"
        /\ editor'[p].dirty = changed
    BY <2>1, <2>2, <2>4 DEF NotSaving, Editors
  <2>6. editor[p].saving # "no"
    BY DEF SaveReturns
  <2>7. Sound(editor'[p])
    BY <2>3, <2>5, <2>6 DEF Tidy, Sound
  <2>8. QED BY <1>3, <2>4, <2>7, OneEditorTidy DEF SaveReturns
<1>4. QED BY <1>2, <1>3

LEMMA StepTidy ==
    ASSUME TypeOK, Tidy, [Next]_vars
    PROVE  Tidy' /\ Handed
<1>1. CASE NoEditor
  BY <1>1, NoEditorTidy
<1>2. CASE WindowClosed \/ ChangeAutosave
  BY <1>2, WindowTidy, AutosaveTidy
<1>3. ASSUME NEW call \in opening, Open(call) PROVE Tidy' /\ Handed
  <2>1. CASE UNCHANGED <<tabs, watched, editor, stray>>
    <3>1. NoEditor
      BY <1>3, <2>1 DEF Open, NoEditor, Tidy, AsksLocated
    <3>2. QED BY <3>1, NoEditorTidy
  <2>2. CASE Shown(OpenState(call.list, PathOf[call.client]))
    BY <1>3, <2>2, ShownTidy DEF Open
  <2>3. QED BY <1>3, <2>1, <2>2 DEF Open
<1>4. ASSUME NEW p \in Paths, OpenByHand(p) PROVE Tidy' /\ Handed
  BY <1>4, ShownTidy DEF OpenByHand
<1>5. ASSUME NEW p \in Paths, SaveTab(p) PROVE Tidy' /\ Handed
  BY <1>5, SaveTidy DEF SaveTab, AutosaveFires, UserSaves
<1>6. ASSUME NEW p \in Paths,
             \/ Loaded(p) \/ CloseTab(p) \/ SaveReturns(p) \/ SaveFails(p)
             \/ \E e \in Typed : Type(p, e)
      PROVE  Tidy' /\ Handed
  BY <1>6, LoadedTidy, CloseTabTidy, SaveReturnsTidy, SaveFailsTidy, TypeTidy
<1>7. QED BY <1>1, <1>2, <1>3, <1>4, <1>5, <1>6, NoEditorEffect DEF Next, Tidy

LEMMA InitTidy == Init => Tidy
BY NoneSound DEF Init, Tidy, AsksLocated

(* When Git is told to go on, the file holds what the tab showed, but for   *)
(* the three exceptions the property states.                                 *)
THEOREM HandoffAlways == Spec => HandoffSaved
<1>1. TypeOK /\ Tidy /\ [Next]_vars => Tidy'
  BY StepTidy
<1>2. TypeOK /\ Tidy /\ [Next]_vars =>
        [\A c \in completing' \ completing :
           LET p == PathOf[c]
               e == editor[p]
               shown == IF e.saving = "closing" THEN e.text ELSE e.content
           IN e.at = "ready" /\ p \in watched /\ (e.saving = "closing" \/ disk[p] = e.saved)
              => disk'[p] = shown]_vars
  BY StepTidy DEF Handed
<1>3. QED BY TypeCorrect, InitTidy, <1>1, <1>2, PTL DEF Spec, HandoffSaved
=============================================================================
