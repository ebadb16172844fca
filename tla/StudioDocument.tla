--------------------------- MODULE StudioDocument ---------------------------
(***************************************************************************)
(* How the desktop studio edits one workflow.rad: the text editor with its  *)
(* autosave, the graph whose edits the server applies to the file, the      *)
(* layout of the graph, and the view of the document that the three share   *)
(* (frontend/src/pages/App.jsx, frontend/src/components/CodeWorkspace.jsx,  *)
(* frontend/electron/main.js, gofer/radish/editor.py).  The editor writes   *)
(* the file itself, through the main process; the graph sends its edits and *)
(* the layout to the server, with the revision they were made on.           *)
(*                                                                          *)
(* The renderer is one thread: a handler runs up to its next await, and     *)
(* every await is a pair of actions with the rest of the system between     *)
(* them.  A text is the set of the edits it contains, a layout the set of   *)
(* the node moves it contains, so a revision (a hash of the text) is the    *)
(* set itself.  The tab stays open and the workflow selected.               *)
(***************************************************************************)
EXTENDS Naturals, FiniteSets

CONSTANTS Typed,        \* edits the user types into the text
          Drawn,        \* edits the user makes on the graph
          Foreign,      \* edits another program makes to the file
          Moves,        \* nodes the user drags on the canvas
          Autosave,     \* TRUE: settings.general.autosave is on
          CanFail,      \* TRUE: a write of the file or a request may fail
          NoOne         \* nobody waits for this save

ASSUME EditsAssumption ==
    /\ Typed \cap Drawn = {} /\ Typed \cap Foreign = {} /\ Drawn \cap Foreign = {}
    /\ Drawn \cap Moves = {}
    /\ NoOne \notin Drawn
ASSUME OptionsAssumption == {Autosave, CanFail} \subseteq BOOLEAN

VARIABLES disk,         \* workflow.rad and the layout in workflow.metadata.json
          editor,       \* TextCodeEditor: the model, the saved text, its state
          saving,       \* TextCodeEditor.save: how far the running save is
          view,         \* radishEditorStateRef: the document the studio shows
          load,         \* the GET that loads the document
          analysis,     \* the latest analysis request
          pending,      \* radishMetadataPendingRef and its timer
          layoutCalls,  \* POST .../metadata in flight, by caller
          calls,        \* mutateActiveRadish, by graph edit
          crossed       \* whether edits have crossed: a history, read by properties

vars == <<disk, editor, saving, view, load, analysis, pending, layoutCalls, calls>>
allVars == <<vars, crossed>>

Texts   == SUBSET (Typed \cup Drawn \cup Foreign)
Layouts == SUBSET Moves
Callers == Drawn \cup Moves       \* a move stands for the call of its timer
Documents == [source : Texts, base : Texts, layout : Layouts]
Blank == [source |-> {}, base |-> {}, layout |-> {}]   \* no document yet

-----------------------------------------------------------------------------
(* Faults: definitions as a plausible mistake would have them.              *)

SentWithLayout(base) == [at |-> "asked", base |-> view.layoutBase, doc |-> Blank]
AlwaysCurrent(expected, found) == TRUE
ResumedNever(call) == calls
AfterSaveForgets ==
    [editor EXCEPT !.shown = saving.after, !.dirty = saving.after # saving.text,
                   !.error = FALSE, !.timer = FALSE]
FileWrittenLate ==
    /\ saving.at = "written"
    /\ editor' = [editor EXCEPT !.saved = editor.content]
    /\ saving' = [saving EXCEPT !.at = "refreshing", !.after = editor.content]
    /\ UNCHANGED <<disk, view, load, analysis, pending, layoutCalls, calls>>

-----------------------------------------------------------------------------
(* What the handlers share.                                                 *)

\* The document the server makes of a text, with the revisions it finds.
Document(source) == [source |-> source, base |-> disk.source, layout |-> disk.layout]

\* The view of a document the server sent.
ViewOf(doc) ==
    [loaded |-> TRUE, source |-> doc.source, dirty |-> doc.source # doc.base,
     base |-> doc.base, layout |-> doc.layout, layoutBase |-> doc.layout]

\* Each state the editor sets reaches the view: onStateChange.
Published(v, e) == [v EXCEPT !.source = e.shown, !.dirty = e.dirty]

\* A change of the model: the state, the analysis and the autosave follow.
Changed(e, content, saved) ==
    [e EXCEPT !.content = content, !.saved = saved, !.shown = content,
              !.dirty = content # saved, !.error = FALSE, !.timer = Autosave]
AnalysisOf(source) == [at |-> "waiting", source |-> source, doc |-> Blank]

NotSaving == [at |-> "no", text |-> {}, after |-> {}, caller |-> NoOne, doc |-> Blank]
NoCall    == [at |-> "idle", base |-> {}, doc |-> Blank]
NoLayoutCall == [at |-> "idle", layout |-> {}, base |-> {}]

\* save() finds text to write and no save running: it starts.
CanSave == saving.at = "no" /\ editor.content # editor.saved
StartSave(caller, v) ==
    LET e == [editor EXCEPT !.timer = FALSE, !.error = FALSE]
    IN /\ editor' = e
       /\ view' = Published(v, e)
       /\ saving' = [NotSaving EXCEPT !.at = "writing", !.text = editor.content,
                                      !.caller = caller]

\* The graph edit that waits for the save goes on as the given call.
Resumed(call) ==
    IF saving.caller \in Drawn THEN [calls EXCEPT ![saving.caller] = call] ELSE calls

\* save() gives up: the error shows, and the graph edit that waits is dropped.
SaveGivesUp(again) ==
    LET e == [editor EXCEPT !.error = TRUE, !.timer = again \/ @]
    IN /\ editor' = e
       /\ view' = Published(view, e)
       /\ saving' = NotSaving
       /\ calls' = Resumed(NoCall)

\* The state the editor sets when a save is done: what it captured before it
\* read the document.  Text typed meanwhile is left to the autosave.
AfterSave ==
    [editor EXCEPT !.shown = saving.after, !.dirty = saving.after # saving.text,
                   !.error = FALSE,
                   !.timer = @ \/ (Autosave /\ editor.content # editor.saved)]

\* The graph edit is sent to the server with the revision it was made on.
Sent(base) == [NoCall EXCEPT !.at = "asked", !.base = base]

\* The service compares the revision of a request with the file.
Current(expected, found) == expected = found

\* Two edits are on their way to one text: the server has a graph edit while the
\* editor has text to save, saves or while it has another one, or text was typed
\* before the document is there.  No handler prevents any of them.
AtServer(d) == calls[d].at \in {"asked", "read", "written"}
Crossing ==
    \/ \E d \in Drawn : /\ AtServer(d)
                         /\ \/ editor.content # editor.saved \/ saving.at # "no"
                            \/ \E other \in Drawn \ {d} : AtServer(other)
    \/ load.at # "idle" /\ editor.content # {}

\* A request succeeds, or, if it can fail, is refused.
Accepted == IF CanFail THEN BOOLEAN ELSE {TRUE}

\* codeCloseProtection: what closing the tab asks first.
CodeCloseProtection ==
    IF ~view.dirty THEN "close" ELSE IF Autosave THEN "confirm-discard" ELSE "prompt-to-save"

-----------------------------------------------------------------------------
\* Every variable has the shape of the fields and requests it stands for.
TypeOK ==
    /\ disk \in [source : Texts, layout : Layouts]
    /\ editor \in [content : Texts, saved : Texts, shown : Texts, dirty : BOOLEAN,
                   error : BOOLEAN, timer : BOOLEAN]
    /\ saving \in [at : {"no", "writing", "written", "refreshing", "refreshed"},
                   text : Texts, after : Texts, caller : Drawn \cup {NoOne}, doc : Documents]
    /\ view \in [loaded : BOOLEAN, source : Texts, dirty : BOOLEAN, base : Texts,
                 layout : Layouts, layoutBase : Layouts]
    /\ load \in [at : {"idle", "asked", "answered"}, doc : Documents]
    /\ analysis \in [at : {"idle", "waiting", "answered"}, source : Texts, doc : Documents]
    /\ pending \in [layout : BOOLEAN, timer : BOOLEAN]
    /\ layoutCalls \in [Callers -> [at : {"idle", "asked", "saved", "refused"},
                                    layout : Layouts, base : Layouts]]
    /\ calls \in [Drawn -> [at : {"idle", "layout", "save", "asked", "read", "written"},
                            base : Texts, doc : Documents]]
    /\ crossed \in BOOLEAN

\* The tab has read the file; the document is being fetched.
Init ==
    /\ disk = [source |-> {}, layout |-> {}]
    /\ editor = [content |-> {}, saved |-> {}, shown |-> {}, dirty |-> FALSE,
                 error |-> FALSE, timer |-> FALSE]
    /\ saving = NotSaving
    /\ view = [loaded |-> FALSE, source |-> {}, dirty |-> FALSE, base |-> {},
               layout |-> {}, layoutBase |-> {}]
    /\ load = [at |-> "asked", doc |-> Blank]
    /\ analysis = [AnalysisOf({}) EXCEPT !.at = "idle"]
    /\ pending = [layout |-> FALSE, timer |-> FALSE]
    /\ layoutCalls = [c \in Callers |-> NoLayoutCall]
    /\ calls = [d \in Drawn |-> NoCall]
    /\ crossed = FALSE

-----------------------------------------------------------------------------
(* The document is loaded and analysed.                                     *)

LoadServed ==
    /\ load.at = "asked"
    /\ load' = [at |-> "answered", doc |-> Document(disk.source)]
    /\ UNCHANGED <<disk, editor, saving, view, analysis, pending, layoutCalls, calls>>

LoadReply ==
    /\ load.at = "answered"
    /\ view' = ViewOf(load.doc)
    /\ load' = [at |-> "idle", doc |-> Blank]
    /\ UNCHANGED <<disk, editor, saving, analysis, pending, layoutCalls, calls>>

\* The timer of the analysis fires and the server answers.
AnalysisServed ==
    /\ analysis.at = "waiting"
    /\ analysis' = [analysis EXCEPT !.at = "answered", !.doc = Document(analysis.source)]
    /\ UNCHANGED <<disk, editor, saving, view, load, pending, layoutCalls, calls>>

AnalysisFails ==
    /\ CanFail
    /\ analysis.at = "waiting"
    /\ analysis' = [AnalysisOf({}) EXCEPT !.at = "idle"]
    /\ UNCHANGED <<disk, editor, saving, view, load, pending, layoutCalls, calls>>

\* mergeRadishAnalysisState: the answer counts for the text it was asked for.
AnalysisReply ==
    /\ analysis.at = "answered"
    /\ view' = IF view.source = analysis.source
               THEN [ViewOf(analysis.doc) EXCEPT !.dirty = view.dirty] ELSE view
    /\ analysis' = [AnalysisOf({}) EXCEPT !.at = "idle"]
    /\ UNCHANGED <<disk, editor, saving, load, pending, layoutCalls, calls>>

-----------------------------------------------------------------------------
(* The text editor.                                                         *)

Type(e) ==
    /\ e \notin editor.content
    /\ editor' = Changed(editor, editor.content \cup {e}, editor.saved)
    /\ view' = Published(view, editor')
    /\ analysis' = AnalysisOf(editor'.content)
    /\ UNCHANGED <<disk, saving, load, pending, layoutCalls, calls>>

SaveCommand ==
    /\ CanSave
    /\ StartSave(NoOne, view)
    /\ UNCHANGED <<disk, load, analysis, pending, layoutCalls, calls>>

\* While a save runs the timer is set again.
AutosaveFires ==
    /\ editor.timer
    /\ saving.at = "no"
    /\ IF CanSave THEN StartSave(NoOne, view)
       ELSE /\ editor' = [editor EXCEPT !.timer = FALSE]
            /\ UNCHANGED <<saving, view>>
    /\ UNCHANGED <<disk, load, analysis, pending, layoutCalls, calls>>

\* writeTextFile: the main process replaces the file, whatever it holds.
FileWrite ==
    /\ saving.at = "writing"
    /\ disk' = [disk EXCEPT !.source = saving.text]
    /\ saving' = [saving EXCEPT !.at = "written"]
    /\ UNCHANGED <<editor, view, load, analysis, pending, layoutCalls, calls>>

FileWriteFails ==
    /\ CanFail
    /\ saving.at = "writing"
    /\ SaveGivesUp(FALSE)
    /\ UNCHANGED <<disk, load, analysis, pending, layoutCalls>>

\* The write is confirmed; the document is read again.
FileWritten ==
    /\ saving.at = "written"
    /\ editor' = [editor EXCEPT !.saved = saving.text]
    /\ saving' = [saving EXCEPT !.at = "refreshing", !.after = editor.content]
    /\ UNCHANGED <<disk, view, load, analysis, pending, layoutCalls, calls>>

RefreshServed ==
    /\ saving.at = "refreshing"
    /\ saving' = [saving EXCEPT !.at = "refreshed", !.doc = Document(disk.source)]
    /\ UNCHANGED <<disk, editor, view, load, analysis, pending, layoutCalls, calls>>

RefreshFails ==
    /\ CanFail
    /\ saving.at = "refreshing"
    /\ SaveGivesUp(Autosave /\ editor.content # editor.saved)
    /\ UNCHANGED <<disk, load, analysis, pending, layoutCalls>>

\* refreshRadishAfterFileSave: the document replaces the view of the text it is of.
RefreshReply ==
    /\ saving.at = "refreshed"
    /\ editor' = AfterSave
    /\ view' = Published(IF view.source = saving.text THEN ViewOf(saving.doc) ELSE view,
                         AfterSave)
    /\ calls' = Resumed(Sent(saving.doc.base))
    /\ saving' = NotSaving
    /\ UNCHANGED <<disk, load, analysis, pending, layoutCalls>>

-----------------------------------------------------------------------------
(* The layout of the graph.                                                 *)

Move(m) ==
    /\ view.loaded
    /\ m \notin view.layout
    /\ view' = [view EXCEPT !.layout = @ \cup {m}]
    /\ pending' = [layout |-> TRUE, timer |-> TRUE]
    /\ UNCHANGED <<disk, editor, saving, load, analysis, layoutCalls, calls>>

\* saveRadishMetadataNow sends the layout with the revision of the view.
SendLayout(c) ==
    /\ layoutCalls[c].at = "idle"
    /\ pending' = [pending EXCEPT !.timer = FALSE]
    /\ layoutCalls' = [layoutCalls EXCEPT ![c] =
                           [at |-> "asked", layout |-> view.layout, base |-> view.layoutBase]]

LayoutTimer(m) ==
    /\ pending.timer
    /\ IF pending.layout THEN SendLayout(m)
       ELSE /\ pending' = [pending EXCEPT !.timer = FALSE]
            /\ UNCHANGED layoutCalls
    /\ UNCHANGED <<disk, editor, saving, view, load, analysis, calls>>

\* RadishEditorService.save_metadata, under the lock of the service.
LayoutServed(c) ==
    /\ layoutCalls[c].at = "asked"
    /\ \A d \in Drawn : calls[d].at # "read"
    /\ \E ok \in Accepted :
         IF ok /\ Current(layoutCalls[c].base, disk.layout)
         THEN /\ disk' = [disk EXCEPT !.layout = layoutCalls[c].layout]
              /\ layoutCalls' = [layoutCalls EXCEPT ![c].at = "saved"]
         ELSE /\ layoutCalls' = [layoutCalls EXCEPT ![c].at = "refused"]
              /\ UNCHANGED disk
    /\ UNCHANGED <<editor, saving, view, load, analysis, pending, calls>>

\* The graph edit that waited for the layout goes on: it saves a dirty text first.
GoesOn(d, v) ==
    IF v.dirty /\ CanSave
    THEN /\ StartSave(d, v)
         /\ calls' = [calls EXCEPT ![d] = [NoCall EXCEPT !.at = "save"]]
    ELSE /\ calls' = [calls EXCEPT ![d] = IF v.dirty THEN NoCall ELSE Sent(v.base)]
         /\ view' = v
         /\ UNCHANGED <<editor, saving>>

LayoutReply(c) ==
    /\ layoutCalls[c].at \in {"saved", "refused"}
    /\ layoutCalls' = [layoutCalls EXCEPT ![c] = NoLayoutCall]
    /\ IF layoutCalls[c].at = "saved"
       THEN LET v == [view EXCEPT !.layout = layoutCalls[c].layout,
                                  !.layoutBase = layoutCalls[c].layout]
            IN /\ pending' = [pending EXCEPT !.layout = FALSE]
               /\ IF c \in Drawn THEN GoesOn(c, v)
                  ELSE view' = v /\ UNCHANGED <<editor, saving, calls>>
       ELSE /\ calls' = IF c \in Drawn THEN [calls EXCEPT ![c] = NoCall] ELSE calls
            /\ UNCHANGED <<editor, saving, view, pending>>
    /\ UNCHANGED <<disk, load, analysis>>

-----------------------------------------------------------------------------
(* Edits on the graph.                                                      *)

\* mutateActiveRadish
Draw(d) ==
    /\ view.loaded
    /\ calls[d].at = "idle"
    /\ d \notin view.source
    /\ IF pending.layout
       THEN /\ SendLayout(d)
            /\ calls' = [calls EXCEPT ![d] = [NoCall EXCEPT !.at = "layout"]]
            /\ UNCHANGED <<editor, saving, view>>
       ELSE GoesOn(d, view) /\ UNCHANGED <<pending, layoutCalls>>
    /\ UNCHANGED <<disk, load, analysis>>

\* RadishEditorService.mutate_document reads and compares under its lock ...
MutationRead(d) ==
    /\ calls[d].at = "asked"
    /\ \A other \in Drawn : calls[other].at # "read"
    /\ \E ok \in Accepted :
         calls' = [calls EXCEPT ![d] = IF ok /\ Current(@.base, disk.source)
                                       THEN [@ EXCEPT !.at = "read"] ELSE NoCall]
    /\ UNCHANGED <<disk, editor, saving, view, load, analysis, pending, layoutCalls>>

\* ... and writes what it made of the text it read.
MutationWrite(d) ==
    /\ calls[d].at = "read"
    /\ LET text == calls[d].base \cup {d}
       IN /\ disk' = [disk EXCEPT !.source = text]
          /\ calls' = [calls EXCEPT ![d].at = "written",
                         ![d].doc = [source |-> text, base |-> text, layout |-> disk.layout]]
    /\ UNCHANGED <<editor, saving, view, load, analysis, pending, layoutCalls>>

\* The reply replaces the view and the text of the editor.
MutationReply(d) ==
    /\ calls[d].at = "written"
    /\ LET text == calls[d].doc.source
       IN /\ editor' = Changed(editor, text, text)
          /\ analysis' = AnalysisOf(text)
    /\ view' = Published(ViewOf(calls[d].doc), editor')
    /\ calls' = [calls EXCEPT ![d] = NoCall]
    /\ UNCHANGED <<disk, saving, load, pending, layoutCalls>>

-----------------------------------------------------------------------------
\* Another program appends to the file.
ForeignEdit(f) ==
    /\ f \notin disk.source
    /\ disk' = [disk EXCEPT !.source = @ \cup {f}]
    /\ UNCHANGED <<editor, saving, view, load, analysis, pending, layoutCalls, calls>>

Save == AutosaveFires \/ FileWrite \/ FileWriteFails \/ FileWritten
        \/ RefreshServed \/ RefreshFails \/ RefreshReply
Replies == LoadServed \/ LoadReply \/ AnalysisServed \/ AnalysisFails \/ AnalysisReply

\* What the handlers do, and whether edits have crossed by then.
Noted == crossed' = (crossed \/ Crossing')

Next ==
    \/ (SaveCommand /\ Noted) \/ (AutosaveFires /\ Noted)
    \/ (FileWrite /\ Noted) \/ (FileWriteFails /\ Noted) \/ (FileWritten /\ Noted)
    \/ (RefreshServed /\ Noted) \/ (RefreshFails /\ Noted) \/ (RefreshReply /\ Noted)
    \/ (LoadServed /\ Noted) \/ (LoadReply /\ Noted)
    \/ (AnalysisServed /\ Noted) \/ (AnalysisFails /\ Noted) \/ (AnalysisReply /\ Noted)
    \/ \E e \in Typed : Type(e) /\ Noted
    \/ \E m \in Moves : (Move(m) /\ Noted) \/ (LayoutTimer(m) /\ Noted)
    \/ \E c \in Callers : (LayoutServed(c) /\ Noted) \/ (LayoutReply(c) /\ Noted)
    \/ \E d \in Drawn : \/ (Draw(d) /\ Noted) \/ (MutationRead(d) /\ Noted)
                         \/ (MutationWrite(d) /\ Noted) \/ (MutationReply(d) /\ Noted)
    \/ \E f \in Foreign : ForeignEdit(f) /\ Noted

Fairness ==
    /\ WF_vars(Save) /\ WF_vars(LoadServed) /\ WF_vars(LoadReply)
    /\ WF_vars(AnalysisServed \/ AnalysisFails) /\ WF_vars(AnalysisReply)
    /\ \A m \in Moves : WF_vars(LayoutTimer(m))
    /\ \A c \in Callers : WF_vars(LayoutServed(c)) /\ WF_vars(LayoutReply(c))
    /\ \A d \in Drawn : /\ WF_vars(MutationRead(d)) /\ WF_vars(MutationWrite(d))
                        /\ WF_vars(MutationReply(d))

Spec == Init /\ [][Next]_allVars
FairSpec == Spec /\ Fairness

-----------------------------------------------------------------------------
(* Properties.                                                              *)

\* No timer is set and no request is under way.
Quiet ==
    /\ ~editor.timer /\ ~pending.timer
    /\ saving.at = "no" /\ load.at = "idle" /\ analysis.at = "idle"
    /\ \A c \in Callers : layoutCalls[c].at = "idle"
    /\ \A d \in Drawn : calls[d].at = "idle"

\* With autosave, when all is quiet and no error shows, the editor has nothing
\* left to write.  Unless edits crossed, the document is not shown as dirty either,
\* and the editor, the view and the file hold the same edits of the studio: no
\* order of timers, answers and saves leaves a mark, with text typed while a save
\* reads the document again.
AgreeAtRest ==
    Quiet /\ Autosave /\ ~editor.error =>
        /\ editor.content = editor.saved
        /\ ~crossed => /\ ~view.dirty
                       /\ view.source \ Foreign = editor.content \ Foreign
                       /\ editor.content \ Foreign = disk.source \ Foreign

\* Unless edits crossed, what the studio wrote to workflow.rad stays there: the
\* editor writes the file without a revision, the server with one, and in turn
\* neither undoes the other.
SourceKept == [][~crossed' => disk.source \ Foreign \subseteq disk'.source]_allVars

\* A move that was saved is never undone by a call that was sent before it: the
\* revision of the layout decides, whatever document the view shows.
LayoutKept == [][disk.layout \subseteq disk'.layout]_allVars

\* With autosave, an edit the user typed reaches the file or an error shows, also
\* when it was typed while a save was running, in any of its stages, unless edits
\* crossed.
TypedIsSaved ==
    Autosave =>
        \A e \in Typed :
            e \in editor.content ~> (e \in disk.source \/ editor.error \/ crossed)

\* A graph edit ends, whatever becomes of the saves it waits for.
GraphEditEnds == \A d \in Drawn : calls[d].at # "idle" ~> calls[d].at = "idle"

\* When all is quiet, a tab that closes without asking has nothing to save.
ClosingLosesNothing ==
    Quiet /\ CodeCloseProtection = "close" => editor.content = editor.saved
=============================================================================
