------------------------ MODULE StudioDocumentProofs ------------------------
(***************************************************************************)
(* Proofs about the editing of one workflow.rad, for any edits, moves and   *)
(* programs, with and without autosave and failures.                        *)
(***************************************************************************)
EXTENDS StudioDocument, TLAPS

Editors == [content : Texts, saved : Texts, shown : Texts, dirty : BOOLEAN, error : BOOLEAN,
            timer : BOOLEAN]
Savings == [at : {"no", "writing", "written", "refreshing", "refreshed"}, text : Texts,
            after : Texts, caller : Drawn \cup {NoOne}, doc : Documents]
Views == [loaded : BOOLEAN, source : Texts, dirty : BOOLEAN, base : Texts, layout : Layouts,
          layoutBase : Layouts]
Analyses == [at : {"idle", "waiting", "answered"}, source : Texts, doc : Documents]
LayoutCalls == [at : {"idle", "asked", "saved", "refused"}, layout : Layouts, base : Layouts]
Calls == [at : {"idle", "layout", "save", "asked", "read", "written"}, base : Texts,
          doc : Documents]

Types ==
    /\ disk \in [source : Texts, layout : Layouts]
    /\ editor \in Editors
    /\ saving \in Savings
    /\ view \in Views
    /\ load \in [at : {"idle", "asked", "answered"}, doc : Documents]
    /\ analysis \in Analyses
    /\ pending \in [layout : BOOLEAN, timer : BOOLEAN]
    /\ layoutCalls \in [Callers -> LayoutCalls]
    /\ calls \in [Drawn -> Calls]

\* What a step does but for the history of crossings.
Step ==
    \/ Save \/ Replies \/ SaveCommand
    \/ \E e \in Typed : Type(e)
    \/ \E m \in Moves : Move(m) \/ LayoutTimer(m)
    \/ \E c \in Callers : LayoutServed(c) \/ LayoutReply(c)
    \/ \E d \in Drawn : Draw(d) \/ MutationRead(d) \/ MutationWrite(d) \/ MutationReply(d)
    \/ \E f \in Foreign : ForeignEdit(f)

LEMMA NextSteps == Next => Step /\ Noted
BY DEF Next, Step, Save, Replies

LEMMA TypeSplit == TypeOK <=> Types /\ crossed \in BOOLEAN
BY DEF TypeOK, Types, Editors, Savings, Views, Analyses, LayoutCalls, Calls

LEMMA TypeSplitNext == TypeOK' <=> Types' /\ crossed' \in BOOLEAN
BY DEF TypeOK, Types, Editors, Savings, Views, Analyses, LayoutCalls, Calls

-----------------------------------------------------------------------------
(* What the handlers share keeps its type.                                  *)

LEMMA BlankType == Blank \in Documents
BY DEF Blank, Documents, Texts, Layouts

LEMMA DocumentType == ASSUME Types, NEW source \in Texts PROVE Document(source) \in Documents
BY DEF Types, Document, Documents

LEMMA ViewOfType == ASSUME NEW doc \in Documents PROVE ViewOf(doc) \in Views
BY DEF ViewOf, Views, Documents

LEMMA PublishedType ==
    ASSUME NEW v \in Views, NEW e \in Editors
    PROVE  Published(v, e) \in Views
BY DEF Published, Views, Editors

LEMMA ChangedType ==
    ASSUME NEW e \in Editors, NEW content \in Texts, NEW saved \in Texts
    PROVE  Changed(e, content, saved) \in Editors
BY OptionsAssumption DEF Changed, Editors

LEMMA AnalysisType == ASSUME NEW source \in Texts PROVE AnalysisOf(source) \in Analyses
BY BlankType DEF AnalysisOf, Analyses

LEMMA IdleAnalysisType == [AnalysisOf({}) EXCEPT !.at = "idle"] \in Analyses
<1>1. {} \in Texts
  BY DEF Texts
<1>2. AnalysisOf({}) \in Analyses
  BY <1>1, AnalysisType
<1>3. QED BY <1>2 DEF Analyses

LEMMA NoneTypes == NotSaving \in Savings /\ NoCall \in Calls /\ NoLayoutCall \in LayoutCalls
<1>1. {} \in Texts /\ {} \in Layouts
  BY DEF Texts, Layouts
<1>2. QED BY <1>1, BlankType DEF NotSaving, Savings, NoCall, Calls, NoLayoutCall, LayoutCalls

LEMMA SentType == ASSUME NEW base \in Texts PROVE Sent(base) \in Calls
BY NoneTypes DEF Sent, Calls

LEMMA ResumedType ==
    ASSUME Types, NEW call \in Calls
    PROVE  Resumed(call) \in [Drawn -> Calls]
BY DEF Types, Resumed

LEMMA AfterSaveType == ASSUME Types PROVE AfterSave \in Editors
<1> DEFINE left == editor.timer \/ (Autosave /\ editor.content # editor.saved)
<1> DEFINE dirty == saving.after # saving.text
<1>1. left \in BOOLEAN /\ dirty \in BOOLEAN /\ saving.after \in Texts /\ editor \in Editors
  BY DEF Types, Savings
<1>2. AfterSave = [editor EXCEPT !.shown = saving.after, !.dirty = dirty, !.error = FALSE,
                                 !.timer = left]
  BY Zenon DEF AfterSave
<1> HIDE DEF left, dirty
<1>3. QED BY <1>1, <1>2 DEF Editors

LEMMA StartSaveType ==
    ASSUME Types, NEW v \in Views, NEW caller \in Drawn \cup {NoOne}, StartSave(caller, v)
    PROVE  editor' \in Editors /\ view' \in Views /\ saving' \in Savings
<1> DEFINE e == [editor EXCEPT !.timer = FALSE, !.error = FALSE]
<1>1. e \in Editors
  BY DEF Types, Editors
<1>2. editor' = e /\ view' = Published(v, e)
  BY DEF StartSave
<1>3. saving' \in Savings
  BY NoneTypes DEF StartSave, Types, Editors, Savings
<1> HIDE DEF e
<1>4. QED BY <1>1, <1>2, <1>3, PublishedType

LEMMA SaveGivesUpType ==
    ASSUME Types, NEW again \in BOOLEAN, SaveGivesUp(again)
    PROVE  editor' \in Editors /\ view' \in Views /\ saving' \in Savings
           /\ calls' \in [Drawn -> Calls]
<1> DEFINE left == again \/ editor.timer
<1> DEFINE e == [editor EXCEPT !.error = TRUE, !.timer = left]
<1>1. e \in Editors
  <2>1. left \in BOOLEAN
    OBVIOUS
  <2> HIDE DEF left
  <2>2. QED BY <2>1 DEF Types, Editors
<1>2. editor' = e /\ view' = Published(view, e)
  BY Zenon DEF SaveGivesUp
<1>3. saving' \in Savings /\ calls' \in [Drawn -> Calls]
  BY NoneTypes, ResumedType DEF SaveGivesUp
<1> HIDE DEF e
<1>4. QED BY <1>1, <1>2, <1>3, PublishedType DEF Types

-----------------------------------------------------------------------------
(* Types, action by action.                                                 *)

LEMMA ReplyType ==
    ASSUME Types, Replies
    PROVE  Types'
<1>1. CASE LoadServed
  BY <1>1, DocumentType DEF LoadServed, Types
<1>2. CASE LoadReply
  BY <1>2, BlankType, ViewOfType DEF LoadReply, Types
<1>3. CASE AnalysisServed
  BY <1>3, DocumentType DEF AnalysisServed, Types, Analyses
<1>4. CASE AnalysisFails
  BY <1>4, IdleAnalysisType DEF AnalysisFails, Types
<1>5. CASE AnalysisReply
  <2>1. ViewOf(analysis.doc) \in Views
    BY ViewOfType DEF Types, Analyses
  <2>2. [ViewOf(analysis.doc) EXCEPT !.dirty = view.dirty] \in Views
    BY <2>1 DEF Types, Views
  <2>3. QED BY <1>5, <2>2, IdleAnalysisType DEF AnalysisReply, Types
<1>6. QED BY <1>1, <1>2, <1>3, <1>4, <1>5 DEF Replies

LEMMA TypeType ==
    ASSUME Types, NEW e \in Typed, Type(e)
    PROVE  Types'
<1>1. editor.content \cup {e} \in Texts /\ editor.saved \in Texts
  BY DEF Types, Editors, Texts
<1>2. editor' \in Editors
  BY <1>1, ChangedType DEF Type, Types
<1>3. view' \in Views
  BY <1>2, PublishedType DEF Type, Types
<1>4. analysis' \in Analyses
  BY <1>2, AnalysisType DEF Type, Editors
<1>5. QED BY <1>2, <1>3, <1>4 DEF Type, Types

LEMMA SaveType ==
    ASSUME Types, Save \/ SaveCommand
    PROVE  Types'
<1>1. CASE SaveCommand
  BY <1>1, StartSaveType DEF SaveCommand, Types
<1>2. CASE AutosaveFires
  <2>1. CASE CanSave
    BY <1>2, <2>1, StartSaveType DEF AutosaveFires, Types
  <2>2. CASE ~CanSave
    BY <1>2, <2>2 DEF AutosaveFires, Types, Editors
  <2>3. QED BY <2>1, <2>2
<1>3. CASE FileWrite
  BY <1>3 DEF FileWrite, Types, Savings
<1>4. CASE FileWriteFails
  BY <1>4, SaveGivesUpType DEF FileWriteFails, Types
<1>5. CASE FileWritten
  <2>1. editor' \in Editors
    BY <1>5 DEF FileWritten, Types, Editors, Savings
  <2>2. saving' \in Savings
    <3>1. editor.content \in Texts /\ saving \in Savings
      BY DEF Types, Editors
    <3>2. QED BY <1>5, <3>1 DEF FileWritten, Savings
  <2>3. QED BY <1>5, <2>1, <2>2 DEF FileWritten, Types
<1>6. CASE RefreshServed
  <2>1. Document(disk.source) \in Documents /\ saving \in Savings
    BY DocumentType DEF Types
  <2>2. saving' \in Savings
    BY <1>6, <2>1 DEF RefreshServed, Savings
  <2>3. QED BY <1>6, <2>2 DEF RefreshServed, Types
<1>7. CASE RefreshFails
  <2>1. (Autosave /\ editor.content # editor.saved) \in BOOLEAN
    BY OptionsAssumption
  <2>2. QED BY <1>7, <2>1, SaveGivesUpType DEF RefreshFails, Types
<1>8. CASE RefreshReply
  <2>1. editor' \in Editors
    BY <1>8, AfterSaveType DEF RefreshReply
  <2>2. (IF view.source = saving.text THEN ViewOf(saving.doc) ELSE view) \in Views
    BY ViewOfType DEF Types, Savings
  <2>3. view' \in Views
    BY <1>8, <2>2, AfterSaveType, PublishedType DEF RefreshReply
  <2>4. calls' \in [Drawn -> Calls]
    <3>1. saving.doc.base \in Texts
      BY DEF Types, Savings, Documents
    <3>2. QED BY <1>8, <3>1, SentType, ResumedType DEF RefreshReply
  <2>5. QED BY <1>8, <2>1, <2>3, <2>4, NoneTypes DEF RefreshReply, Types
<1>9. QED BY <1>1, <1>2, <1>3, <1>4, <1>5, <1>6, <1>7, <1>8 DEF Save

LEMMA MoveType ==
    ASSUME Types, NEW m \in Moves, Move(m)
    PROVE  Types'
BY DEF Move, Types, Views, Layouts

LEMMA SendLayoutType ==
    ASSUME Types, NEW c \in Callers, SendLayout(c)
    PROVE  /\ pending' \in [layout : BOOLEAN, timer : BOOLEAN]
           /\ layoutCalls' \in [Callers -> LayoutCalls]
BY DEF SendLayout, Types, Views, LayoutCalls

LEMMA LayoutTimerType ==
    ASSUME Types, NEW m \in Moves, LayoutTimer(m)
    PROVE  Types'
<1>1. m \in Callers
  BY DEF Callers
<1>2. /\ pending' \in [layout : BOOLEAN, timer : BOOLEAN]
      /\ layoutCalls' \in [Callers -> LayoutCalls]
  BY <1>1, SendLayoutType DEF LayoutTimer, Types
<1>3. QED BY <1>2 DEF LayoutTimer, Types

LEMMA LayoutServedType ==
    ASSUME Types, NEW c \in Callers, LayoutServed(c)
    PROVE  Types'
<1>1. disk' \in [source : Texts, layout : Layouts]
  BY DEF LayoutServed, Types, LayoutCalls
<1>2. layoutCalls' \in [Callers -> LayoutCalls]
  BY DEF LayoutServed, Types, LayoutCalls
<1>3. QED BY <1>1, <1>2 DEF LayoutServed, Types

LEMMA GoesOnType ==
    ASSUME Types, NEW d \in Drawn, NEW v \in Views, GoesOn(d, v)
    PROVE  editor' \in Editors /\ view' \in Views /\ saving' \in Savings
           /\ calls' \in [Drawn -> Calls]
<1>1. CASE v.dirty /\ CanSave
  <2>1. StartSave(d, v) /\ calls' = [calls EXCEPT ![d] = [NoCall EXCEPT !.at = "save"]]
    BY <1>1 DEF GoesOn
  <2>2. [NoCall EXCEPT !.at = "save"] \in Calls
    BY NoneTypes DEF Calls
  <2>3. QED BY <2>1, <2>2, StartSaveType DEF Types
<1>2. CASE ~ (v.dirty /\ CanSave)
  <2>1. /\ calls' = [calls EXCEPT ![d] = IF v.dirty THEN NoCall ELSE Sent(v.base)]
        /\ view' = v /\ UNCHANGED <<editor, saving>>
    BY <1>2 DEF GoesOn
  <2>2. v.base \in Texts
    BY DEF Views
  <2>3. QED BY <2>1, <2>2, NoneTypes, SentType DEF Types
<1>3. QED BY <1>1, <1>2

LEMMA LayoutReplyType ==
    ASSUME Types, NEW c \in Callers, LayoutReply(c)
    PROVE  Types'
<1> DEFINE v == [view EXCEPT !.layout = layoutCalls[c].layout, !.layoutBase = layoutCalls[c].layout]
<1>1. v \in Views
  <2>1. layoutCalls[c].layout \in Layouts /\ view \in Views
    BY DEF Types, LayoutCalls
  <2>2. QED BY <2>1 DEF Views
<1>2. /\ layoutCalls' = [layoutCalls EXCEPT ![c] = NoLayoutCall]
      /\ UNCHANGED <<disk, load, analysis>>
  BY DEF LayoutReply
<1>3. layoutCalls' \in [Callers -> LayoutCalls]
  BY <1>2, NoneTypes DEF Types
<1>4. CASE layoutCalls[c].at = "saved"
  <2>1. /\ pending' = [pending EXCEPT !.layout = FALSE]
        /\ IF c \in Drawn THEN GoesOn(c, v)
           ELSE view' = v /\ UNCHANGED <<editor, saving, calls>>
    BY <1>4, Zenon DEF LayoutReply
  <2> HIDE DEF v
  <2>2. /\ editor' \in Editors /\ view' \in Views /\ saving' \in Savings
        /\ calls' \in [Drawn -> Calls]
    BY <1>1, <2>1, GoesOnType DEF Types
  <2>3. pending' \in [layout : BOOLEAN, timer : BOOLEAN]
    BY <2>1 DEF Types
  <2>4. QED BY <1>2, <1>3, <2>2, <2>3 DEF Types
<1>5. CASE layoutCalls[c].at # "saved"
  <2>1. /\ calls' = IF c \in Drawn THEN [calls EXCEPT ![c] = NoCall] ELSE calls
        /\ UNCHANGED <<editor, saving, view, pending>>
    BY <1>5, Zenon DEF LayoutReply
  <2>2. QED BY <1>2, <1>3, <2>1, NoneTypes DEF Types
<1>6. QED BY <1>4, <1>5

LEMMA DrawType ==
    ASSUME Types, NEW d \in Drawn, Draw(d)
    PROVE  Types'
<1>1. CASE pending.layout
  <2>1. d \in Callers /\ [NoCall EXCEPT !.at = "layout"] \in Calls
    BY NoneTypes DEF Callers, Calls
  <2>2. QED BY <1>1, <2>1, SendLayoutType DEF Draw, Types
<1>2. CASE ~pending.layout
  BY <1>2, GoesOnType DEF Draw, Types
<1>3. QED BY <1>1, <1>2

LEMMA MutationType ==
    ASSUME Types, NEW d \in Drawn, MutationRead(d) \/ MutationWrite(d) \/ MutationReply(d)
    PROVE  Types'
<1>1. calls[d] \in Calls /\ calls[d].base \in Texts /\ calls[d].doc \in Documents
  BY DEF Types, Calls
<1>2. CASE MutationRead(d)
  <2>1. [calls[d] EXCEPT !.at = "read"] \in Calls
    BY <1>1 DEF Calls
  <2>2. calls' \in [Drawn -> Calls]
    BY <1>2, <2>1, NoneTypes DEF MutationRead, Types
  <2>3. QED BY <1>2, <2>2 DEF MutationRead, Types
<1>3. CASE MutationWrite(d)
  <2> DEFINE text == calls[d].base \cup {d}
  <2> DEFINE doc == [source |-> text, base |-> text, layout |-> disk.layout]
  <2>1. text \in Texts
    BY <1>1 DEF Texts
  <2>2. doc \in Documents
    BY <2>1 DEF Types, Documents
  <2>3. /\ disk' = [disk EXCEPT !.source = text]
        /\ calls' = [calls EXCEPT ![d].at = "written", ![d].doc = doc]
    BY <1>3, Zenon DEF MutationWrite
  <2> HIDE DEF text, doc
  <2>4. calls' \in [Drawn -> Calls]
    <3> DEFINE call == [calls[d] EXCEPT !.at = "written", !.doc = doc]
    <3>1. call \in Calls
      BY <1>1, <2>2 DEF Calls
    <3>2. calls' = [calls EXCEPT ![d] = call]
      BY <1>1, <2>3 DEF Types, Calls
    <3> HIDE DEF call
    <3>3. QED BY <3>1, <3>2 DEF Types
  <2>5. disk' \in [source : Texts, layout : Layouts]
    BY <2>1, <2>3 DEF Types
  <2>6. QED BY <1>3, <2>4, <2>5 DEF MutationWrite, Types
<1>4. CASE MutationReply(d)
  <2>1. calls[d].doc.source \in Texts
    BY <1>1 DEF Documents
  <2>2. editor' \in Editors /\ analysis' \in Analyses
    BY <1>4, <2>1, ChangedType, AnalysisType DEF MutationReply, Types
  <2>3. view' \in Views
    BY <1>1, <1>4, <2>2, ViewOfType, PublishedType DEF MutationReply
  <2>4. calls' \in [Drawn -> Calls]
    BY <1>4, NoneTypes DEF MutationReply, Types
  <2>5. QED BY <1>4, <2>2, <2>3, <2>4 DEF MutationReply, Types
<1>5. QED BY <1>2, <1>3, <1>4

LEMMA ForeignType ==
    ASSUME Types, NEW f \in Foreign, ForeignEdit(f)
    PROVE  Types'
BY DEF ForeignEdit, Types, Texts

LEMMA StepType ==
    ASSUME TypeOK, [Next]_allVars
    PROVE  TypeOK'
<1>1. Types /\ crossed \in BOOLEAN
  BY TypeSplit
<1>2. CASE Step /\ Noted
  <2>1. Types'
    BY <1>1, <1>2, ReplyType, TypeType, SaveType, MoveType, LayoutTimerType,
       LayoutServedType, LayoutReplyType, DrawType, MutationType, ForeignType DEF Step
  <2>2. crossed' \in BOOLEAN
    BY <1>2 DEF Noted, Crossing
  <2>3. QED BY <2>1, <2>2, TypeSplitNext
<1>3. CASE UNCHANGED allVars
  BY <1>1, <1>3, TypeSplitNext DEF allVars, vars, Types
<1>4. QED BY <1>2, <1>3, NextSteps

LEMMA InitType == Init => TypeOK
<1> SUFFICES ASSUME Init PROVE Types
  BY TypeSplit DEF Init
<1>1. {} \in Texts /\ {} \in Layouts
  BY DEF Texts, Layouts
<1>2. QED
  BY <1>1, BlankType, NoneTypes, IdleAnalysisType DEF Init, Types, Editors, Views

(* The types of the variables. *)
THEOREM TypeCorrect == Spec => []TypeOK
BY InitType, StepType, PTL DEF Spec

-----------------------------------------------------------------------------
(* The layout on disk only grows.  What the studio shows, and what it sends, *)
(* contains the layout whose revision goes with it.                         *)

Grown ==
    /\ view.layoutBase \subseteq view.layout
    /\ \A c \in Callers : layoutCalls[c].base \subseteq layoutCalls[c].layout

LEMMA ViewOfGrown == ASSUME NEW doc PROVE ViewOf(doc).layoutBase \subseteq ViewOf(doc).layout
BY DEF ViewOf

\* What the editor publishes leaves the layout of the view alone.
LEMMA PublishedGrown ==
    ASSUME NEW v \in Views, NEW e
    PROVE  Published(v, e).layout = v.layout /\ Published(v, e).layoutBase = v.layoutBase
BY DEF Published, Views

LEMMA GoesOnGrown ==
    ASSUME NEW d \in Drawn, NEW v \in Views, GoesOn(d, v)
    PROVE  view'.layout = v.layout /\ view'.layoutBase = v.layoutBase
<1>1. CASE v.dirty /\ CanSave
  <2>1. view' = Published(v, [editor EXCEPT !.timer = FALSE, !.error = FALSE])
    BY <1>1 DEF GoesOn, StartSave
  <2>2. QED BY <2>1, PublishedGrown
<1>2. CASE ~ (v.dirty /\ CanSave)
  BY <1>2 DEF GoesOn
<1>3. QED BY <1>1, <1>2

LEMMA StartSaveGrown ==
    ASSUME NEW v \in Views, NEW caller, StartSave(caller, v)
    PROVE  view'.layout = v.layout /\ view'.layoutBase = v.layoutBase
BY PublishedGrown DEF StartSave

LEMMA SaveGrown ==
    ASSUME Types, Grown, Save \/ SaveCommand
    PROVE  view'.layoutBase \subseteq view'.layout /\ UNCHANGED layoutCalls
<1>1. UNCHANGED layoutCalls
  BY DEF Save, SaveCommand, AutosaveFires, FileWrite, FileWriteFails, FileWritten,
         RefreshServed, RefreshFails, RefreshReply
<1>2. view \in Views /\ view.layoutBase \subseteq view.layout
  BY DEF Types, Grown
<1>3. CASE SaveCommand
  BY <1>2, <1>3, StartSaveGrown DEF SaveCommand
<1>4. CASE AutosaveFires
  BY <1>2, <1>4, StartSaveGrown DEF AutosaveFires
<1>5. CASE FileWrite \/ FileWritten \/ RefreshServed
  BY <1>2, <1>5 DEF FileWrite, FileWritten, RefreshServed
<1>6. CASE FileWriteFails \/ RefreshFails
  <2>1. PICK e : view' = Published(view, e)
    BY <1>6 DEF FileWriteFails, RefreshFails, SaveGivesUp
  <2>2. QED BY <1>1, <1>2, <2>1, PublishedGrown
<1>7. CASE RefreshReply
  <2> DEFINE v == IF view.source = saving.text THEN ViewOf(saving.doc) ELSE view
  <2>1. v \in Views
    BY ViewOfType DEF Types, Savings
  <2>2. v.layoutBase \subseteq v.layout
    BY <1>2, ViewOfGrown
  <2>3. view' = Published(v, AfterSave)
    BY <1>7 DEF RefreshReply
  <2> HIDE DEF v
  <2>4. QED BY <1>1, <2>1, <2>2, <2>3, PublishedGrown
<1>8. QED BY <1>1, <1>3, <1>4, <1>5, <1>6, <1>7 DEF Save

LEMMA SendLayoutGrown ==
    ASSUME Types, Grown, NEW c \in Callers, SendLayout(c)
    PROVE  \A other \in Callers : layoutCalls'[other].base \subseteq layoutCalls'[other].layout
BY DEF SendLayout, Types, Grown

LEMMA LayoutServedGrown ==
    ASSUME Types, Grown, NEW c \in Callers, LayoutServed(c)
    PROVE  Grown' /\ disk.layout \subseteq disk'.layout
<1>1. layoutCalls[c] \in LayoutCalls /\ layoutCalls[c].base \subseteq layoutCalls[c].layout
  BY DEF Types, Grown
<1>2. PICK at \in {"saved", "refused"} :
        /\ layoutCalls' = [layoutCalls EXCEPT ![c].at = at]
        /\ \/ UNCHANGED disk
           \/ /\ layoutCalls[c].base = disk.layout
              /\ disk' = [disk EXCEPT !.layout = layoutCalls[c].layout]
  BY Zenon DEF LayoutServed, Current
<1>3. \A other \in Callers : /\ layoutCalls'[other].base = layoutCalls[other].base
                             /\ layoutCalls'[other].layout = layoutCalls[other].layout
  BY <1>2 DEF Types, LayoutCalls
<1>4. disk.layout \subseteq disk'.layout
  BY <1>1, <1>2 DEF Types
<1>5. UNCHANGED view
  BY DEF LayoutServed
<1>6. QED BY <1>3, <1>4, <1>5 DEF Grown

LEMMA LayoutReplyGrown ==
    ASSUME Types, Grown, NEW c \in Callers, LayoutReply(c)
    PROVE  Grown'
<1> DEFINE v == [view EXCEPT !.layout = layoutCalls[c].layout, !.layoutBase = layoutCalls[c].layout]
<1>1. v \in Views /\ v.layout = v.layoutBase
  <2>1. layoutCalls[c].layout \in Layouts /\ view \in Views
    BY DEF Types, LayoutCalls
  <2>2. QED BY <2>1 DEF Views
<1>2. layoutCalls' = [layoutCalls EXCEPT ![c] = NoLayoutCall]
  BY DEF LayoutReply
<1>3. \A other \in Callers : layoutCalls'[other].base \subseteq layoutCalls'[other].layout
  BY <1>2 DEF Types, Grown, NoLayoutCall
<1>4. CASE layoutCalls[c].at = "saved" /\ c \in Drawn
  <2>1. GoesOn(c, v)
    BY <1>4, Zenon DEF LayoutReply
  <2> HIDE DEF v
  <2>2. QED BY <1>1, <1>3, <1>4, <2>1, GoesOnGrown DEF Grown
<1>5. CASE layoutCalls[c].at = "saved" /\ c \notin Drawn
  <2>1. view' = v
    BY <1>5, Zenon DEF LayoutReply
  <2> HIDE DEF v
  <2>2. QED BY <1>1, <1>3, <2>1 DEF Grown
<1>6. CASE layoutCalls[c].at # "saved"
  <2>1. view' = view
    BY <1>6, Zenon DEF LayoutReply
  <2>2. QED BY <1>3, <2>1 DEF Grown
<1>7. QED BY <1>4, <1>5, <1>6

LEMMA MutationGrown ==
    ASSUME Types, Grown, NEW d \in Drawn, MutationRead(d) \/ MutationWrite(d) \/ MutationReply(d)
    PROVE  Grown' /\ disk'.layout = disk.layout
<1>1. UNCHANGED layoutCalls
  BY DEF MutationRead, MutationWrite, MutationReply
<1>2. CASE MutationReply(d)
  <2>1. ViewOf(calls[d].doc) \in Views
    BY ViewOfType DEF Types, Calls
  <2>2. view' = Published(ViewOf(calls[d].doc), editor') /\ UNCHANGED disk
    BY <1>2 DEF MutationReply
  <2>3. view'.layoutBase \subseteq view'.layout
    BY <2>1, <2>2, PublishedGrown, ViewOfGrown
  <2>4. QED BY <1>1, <2>2, <2>3 DEF Grown
<1>3. CASE MutationRead(d) \/ MutationWrite(d)
  <2>1. UNCHANGED view /\ disk'.layout = disk.layout
    BY <1>3 DEF MutationRead, MutationWrite, Types
  <2>2. QED BY <1>1, <2>1 DEF Grown
<1>4. QED BY <1>2, <1>3

LEMMA DrawGrown ==
    ASSUME Types, Grown, NEW d \in Drawn, Draw(d)
    PROVE  Grown' /\ UNCHANGED disk
<1>1. CASE pending.layout
  <2>1. d \in Callers /\ SendLayout(d) /\ UNCHANGED <<view, disk>>
    BY <1>1 DEF Draw, Callers
  <2>2. QED BY <2>1, SendLayoutGrown DEF Grown
<1>2. CASE ~pending.layout
  <2>1. GoesOn(d, view) /\ UNCHANGED <<layoutCalls, disk>>
    BY <1>2 DEF Draw
  <2>2. QED BY <2>1, GoesOnGrown DEF Grown, Types
<1>3. QED BY <1>1, <1>2

LEMMA MovesGrown ==
    ASSUME Types, Grown, NEW m \in Moves, Move(m) \/ LayoutTimer(m)
    PROVE  Grown' /\ UNCHANGED disk
<1>1. CASE Move(m)
  BY <1>1 DEF Move, Grown, Types, Views
<1>2. CASE LayoutTimer(m)
  <2>1. m \in Callers /\ UNCHANGED <<view, disk>>
    BY <1>2 DEF LayoutTimer, Callers
  <2>2. CASE pending.layout
    <3>1. SendLayout(m)
      BY <1>2, <2>2 DEF LayoutTimer
    <3>2. QED BY <2>1, <3>1, SendLayoutGrown DEF Grown
  <2>3. CASE ~pending.layout
    BY <1>2, <2>1, <2>3 DEF LayoutTimer, Grown
  <2>4. QED BY <2>2, <2>3
<1>3. QED BY <1>1, <1>2

LEMMA TypeGrown ==
    ASSUME Types, Grown, NEW e \in Typed, Type(e)
    PROVE  Grown' /\ UNCHANGED disk
<1>1. view' = Published(view, editor') /\ UNCHANGED <<disk, layoutCalls>>
  BY DEF Type
<1>2. view \in Views
  BY DEF Types
<1>3. QED BY <1>1, <1>2, PublishedGrown DEF Grown

LEMMA RepliesGrown ==
    ASSUME Types, Grown, Replies
    PROVE  Grown' /\ UNCHANGED disk
<1>1. UNCHANGED <<disk, layoutCalls>>
  BY DEF Replies, LoadServed, LoadReply, AnalysisServed, AnalysisFails, AnalysisReply
<1>2. CASE LoadReply
  BY <1>1, <1>2, ViewOfGrown DEF LoadReply, Grown
<1>3. CASE AnalysisReply
  <2>1. ViewOf(analysis.doc) \in Views
    BY ViewOfType DEF Types, Analyses
  <2> DEFINE v == [ViewOf(analysis.doc) EXCEPT !.dirty = view.dirty]
  <2>2. v.layoutBase \subseteq v.layout
    BY <2>1, ViewOfGrown DEF Views
  <2>3. view' = v \/ view' = view
    BY <1>3 DEF AnalysisReply
  <2> HIDE DEF v
  <2>4. QED BY <1>1, <2>2, <2>3 DEF Grown
<1>4. CASE LoadServed \/ AnalysisServed \/ AnalysisFails
  BY <1>1, <1>4 DEF LoadServed, AnalysisServed, AnalysisFails, Grown
<1>5. QED BY <1>2, <1>3, <1>4 DEF Replies

LEMMA SaveDisk ==
    ASSUME Types, Save \/ SaveCommand
    PROVE  disk'.layout = disk.layout
BY DEF Types, Save, SaveCommand, AutosaveFires, FileWrite, FileWriteFails, FileWritten,
       RefreshServed, RefreshFails, RefreshReply

LEMMA StepGrown ==
    ASSUME TypeOK, Grown, [Next]_allVars
    PROVE  Grown' /\ [disk.layout \subseteq disk'.layout]_allVars
<1>1. Types
  BY TypeSplit
<1>2. CASE Save \/ SaveCommand
  BY <1>1, <1>2, SaveGrown, SaveDisk DEF Grown
<1>3. CASE \E d \in Drawn : MutationRead(d) \/ MutationWrite(d) \/ MutationReply(d)
  BY <1>1, <1>3, MutationGrown
<1>4. CASE \E c \in Callers : LayoutServed(c) \/ LayoutReply(c)
  <2>1. PICK c \in Callers : LayoutServed(c) \/ LayoutReply(c)
    BY <1>4
  <2>2. CASE LayoutServed(c)
    BY <1>1, <2>2, LayoutServedGrown
  <2>3. CASE LayoutReply(c)
    <3>1. UNCHANGED disk
      BY <2>3 DEF LayoutReply
    <3>2. QED BY <1>1, <2>3, <3>1, LayoutReplyGrown
  <2>4. QED BY <2>1, <2>2, <2>3
<1>5. CASE \E f \in Foreign : ForeignEdit(f)
  <2>1. UNCHANGED <<view, layoutCalls>> /\ disk'.layout = disk.layout
    BY <1>1, <1>5 DEF ForeignEdit, Types
  <2>2. QED BY <2>1 DEF Grown
<1>6. CASE UNCHANGED allVars
  BY <1>6 DEF allVars, vars, Grown
<1>7. CASE Replies \/ (\E e \in Typed : Type(e)) \/ (\E d \in Drawn : Draw(d))
           \/ (\E m \in Moves : Move(m) \/ LayoutTimer(m))
  BY <1>1, <1>7, RepliesGrown, TypeGrown, DrawGrown, MovesGrown
<1>8. QED BY <1>2, <1>3, <1>4, <1>5, <1>6, <1>7, NextSteps DEF Step

LEMMA InitGrown == Init => Grown
BY DEF Init, Grown, NoLayoutCall

(* A saved move stays: a layout the server writes contains the one its file *)
(* held, because the call carried the revision of that one, and the layout  *)
(* sent with a revision contains the layout the revision is of.             *)
THEOREM LayoutAlways == Spec => LayoutKept
<1>1. Init => TypeOK /\ Grown
  BY InitType, InitGrown
<1>2. TypeOK /\ Grown /\ [Next]_allVars => (TypeOK /\ Grown)'
  BY StepType, StepGrown
<1>3. TypeOK /\ Grown /\ [Next]_allVars => [disk.layout \subseteq disk'.layout]_allVars
  BY StepGrown
<1>4. QED BY <1>1, <1>2, <1>3, PTL DEF Spec, LayoutKept
=============================================================================
