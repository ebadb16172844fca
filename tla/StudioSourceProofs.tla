--------------------------- MODULE StudioSourceProofs ---------------------------
(***************************************************************************)
(* What becomes of the text of workflow.rad, for any edits and programs:    *)
(* until edits cross nothing the studio wrote is lost, and with autosave    *)
(* the editor, the view and the file agree as soon as all is quiet.         *)
(*                                                                          *)
(* The editor and the server write the same file, the editor without a      *)
(* revision.  While no edits have crossed, one graph edit at most is at the *)
(* server, and only when the editor has nothing left to save (Alone).  Then *)
(* what a save is about to write has what the file has (Stored), a graph    *)
(* edit is made on what the file has (Sends), and text typed in any stage   *)
(* of a save stays ahead of it (Saves).                                     *)
(***************************************************************************)
EXTENDS StudioDocumentProofs

\* The edits of a text that the studio made.
Own(text) == text \ Foreign

\* What it means that no edits cross.
Alone ==
    /\ \A d \in Drawn : AtServer(d) =>
         /\ editor.content = editor.saved /\ saving.at = "no"
         /\ \A e \in Drawn : e # d => ~ AtServer(e)
    /\ load.at # "idle" => editor.content = {}

\* A save that a graph edit waits for, and a call of the layout it waits for, are its own.
Waits ==
    /\ saving.at = "no" => saving.caller = NoOne
    /\ \A d \in Drawn :
         /\ calls[d].at = "save" <=> saving.caller = d
         /\ layoutCalls[d].at # "idle" => calls[d].at = "layout"

\* The text grows while it is saved, and what is shown as saved is.
Saves ==
    /\ editor.saved \subseteq editor.content
    /\ editor.shown \subseteq editor.content
    /\ saving.at # "no" => saving.text \subseteq editor.content
    /\ saving.at \in {"writing", "written"} =>
         editor.saved \subseteq saving.text /\ editor.saved # saving.text
    /\ saving.at \in {"refreshing", "refreshed"} =>
         /\ editor.saved = saving.text
         /\ saving.text \subseteq saving.after /\ saving.after \subseteq editor.content
    /\ saving.at = "no" /\ editor.content = editor.saved /\ ~ editor.error =>
         editor.shown = editor.content /\ ~ editor.dirty

\* The file has what was saved, and what is about to be written has what the file has.
Stored ==
    /\ saving.at = "writing" => Own(disk.source) \subseteq saving.text
    /\ saving.at = "written" => Own(saving.text) \subseteq disk.source
    /\ Own(editor.saved) \subseteq disk.source
    /\ (\A d \in Drawn : calls[d].at # "written") => Own(disk.source) \subseteq editor.content

\* A graph edit is made on the text of the file.
Sends ==
    \A d \in Drawn :
      /\ calls[d].at = "read" => Own(calls[d].base) = Own(disk.source)
      /\ calls[d].at = "written" => Own(calls[d].doc.source) = Own(disk.source)

\* The view shows what the editor last set, and before the document is there
\* nothing happens.
Shows ==
    /\ Own(view.source) = Own(editor.shown) /\ view.dirty = editor.dirty
    /\ analysis.at = "answered" => analysis.doc.source = analysis.source
    /\ load.at # "idle" => ~ view.loaded
    /\ load.at = "answered" => Own(load.doc.source) = {} /\ load.doc.base = load.doc.source
    /\ ~ view.loaded =>
         /\ load.at # "idle"
         /\ editor.content = {} /\ ~ editor.dirty /\ saving.at = "no" /\ analysis.at = "idle"
         /\ \A d \in Drawn : calls[d].at = "idle"
         /\ Own(disk.source) = {}

SourceInv == Waits /\ Saves /\ Stored /\ Sends /\ Shows

LEMMA AloneIs == ~Crossing => Alone
BY DEF Crossing, Alone

LEMMA AloneIsNext == ~Crossing' => Alone'
BY DEF Crossing, Alone, AtServer

-----------------------------------------------------------------------------
(* Steps that leave the text, its saves and the graph edits alone.          *)

LEMMA TextStays ==
    ASSUME SourceInv, UNCHANGED <<editor, saving, calls>>, disk'.source = disk.source,
           \A d \in Drawn : layoutCalls'[d].at # "idle" => layoutCalls[d].at # "idle",
           Shows'
    PROVE  SourceInv'
BY DEF SourceInv, Waits, Saves, Stored, Sends, Own

LEMMA ViewStays ==
    ASSUME SourceInv, UNCHANGED <<editor, saving, calls, load, analysis>>,
           disk'.source = disk.source,
           view'.source = view.source, view'.dirty = view.dirty, view'.loaded = view.loaded,
           \A d \in Drawn : layoutCalls'[d].at # "idle" => layoutCalls[d].at # "idle"
    PROVE  SourceInv'
<1>1. Shows'
  BY DEF SourceInv, Shows, Own
<1>2. QED BY <1>1, TextStays

LEMMA ViewOfIs ==
    ASSUME NEW doc
    PROVE  /\ ViewOf(doc).loaded = TRUE /\ ViewOf(doc).source = doc.source
           /\ ViewOf(doc).dirty = (doc.source # doc.base) /\ ViewOf(doc).base = doc.base
BY DEF ViewOf

LEMMA PublishedIs ==
    ASSUME NEW v \in Views, NEW e \in Editors
    PROVE  /\ Published(v, e).loaded = v.loaded /\ Published(v, e).source = e.shown
           /\ Published(v, e).dirty = e.dirty /\ Published(v, e).base = v.base
BY DEF Published, Views, Editors

LEMMA DocumentIs ==
    ASSUME NEW source
    PROVE  Document(source).source = source /\ Document(source).base = disk.source
BY DEF Document

LEMMA RepliesKeep ==
    ASSUME Types, SourceInv, Replies
    PROVE  SourceInv'
<1>0. UNCHANGED <<disk, editor, saving, pending, layoutCalls, calls>>
  BY DEF Replies, LoadServed, LoadReply, AnalysisServed, AnalysisFails, AnalysisReply
<1>1. CASE LoadServed
  <2>1. load.at = "asked" /\ load'.at = "answered" /\ load'.doc = Document(disk.source)
        /\ view' = view /\ analysis' = analysis
    BY <1>1 DEF LoadServed
  <2>2. Shows'
    BY <1>0, <2>1, DocumentIs DEF SourceInv, Shows, Own
  <2>3. QED BY <1>0, <2>2, TextStays
<1>2. CASE LoadReply
  <2>1. load.at = "answered" /\ load'.at = "idle" /\ view' = ViewOf(load.doc)
        /\ analysis' = analysis
    BY <1>2 DEF LoadReply
  <2>2. /\ view'.loaded = TRUE /\ view'.source = load.doc.source
        /\ view'.dirty = (load.doc.source # load.doc.base)
    BY <2>1, ViewOfIs
  <2>3. Own(editor.shown) = {} /\ ~ editor.dirty /\ editor.dirty \in BOOLEAN
    BY <2>1 DEF SourceInv, Saves, Shows, Own, Types, Editors
  <2>4. Shows'
    BY <1>0, <2>1, <2>2, <2>3 DEF SourceInv, Shows, Own
  <2>5. QED BY <1>0, <2>4, TextStays
<1>3. CASE AnalysisServed
  <2>1. /\ analysis.at = "waiting" /\ analysis'.at = "answered"
        /\ analysis'.doc = Document(analysis.source) /\ analysis'.source = analysis.source
        /\ view' = view /\ load' = load
    BY <1>3 DEF AnalysisServed, Types, Analyses
  <2>2. Shows'
    BY <1>0, <2>1, DocumentIs DEF SourceInv, Shows, Own
  <2>3. QED BY <1>0, <2>2, TextStays
<1>4. CASE AnalysisFails \/ AnalysisReply
  <2>1. /\ analysis'.at = "idle" /\ load' = load /\ analysis.at # "idle"
    <3>1. [AnalysisOf({}) EXCEPT !.at = "idle"].at = "idle"
      BY DEF AnalysisOf
    <3>2. QED BY <1>4, <3>1 DEF AnalysisFails, AnalysisReply
  <2>2. view'.source = view.source /\ view'.dirty = view.dirty /\ view'.loaded = view.loaded
    <3>1. CASE view' = view
      BY <3>1
    <3>2. CASE AnalysisReply /\ view' # view
      <4>1. /\ view.source = analysis.source /\ analysis.at = "answered"
            /\ view' = [ViewOf(analysis.doc) EXCEPT !.dirty = view.dirty]
        BY <3>2 DEF AnalysisReply
      <4>2. ViewOf(analysis.doc) \in Views
        BY ViewOfType DEF Types, Analyses
      <4>3. /\ view'.source = ViewOf(analysis.doc).source /\ view'.dirty = view.dirty
            /\ view'.loaded = ViewOf(analysis.doc).loaded
        BY <4>1, <4>2 DEF Views
      <4>4. analysis.doc.source = analysis.source
        BY <4>1 DEF SourceInv, Shows
      <4>5. view.loaded /\ view.loaded \in BOOLEAN
        BY <2>1 DEF SourceInv, Shows, Types, Views
      <4>6. QED BY <4>1, <4>3, <4>4, <4>5, ViewOfIs
    <3>3. QED BY <1>4, <3>1, <3>2 DEF AnalysisFails
  <2>3. Shows'
    BY <1>0, <2>1, <2>2 DEF SourceInv, Shows, Own
  <2>4. QED BY <1>0, <2>3, TextStays
<1>5. QED BY <1>1, <1>2, <1>3, <1>4 DEF Replies

-----------------------------------------------------------------------------
(* The text editor.                                                         *)

\* Text may be typed in any stage of a save.
LEMMA TypeKeeps ==
    ASSUME Types, Types', SourceInv, Alone', NEW e \in Typed, Type(e)
    PROVE  SourceInv' /\ UNCHANGED disk
<1> DEFINE content == editor.content \cup {e}
<1>1. UNCHANGED <<disk, saving, load, pending, layoutCalls, calls>> /\ e \notin editor.content
  BY DEF Type
<1>2. /\ editor'.content = content /\ editor'.saved = editor.saved /\ editor'.shown = content
      /\ editor'.dirty = (content # editor.saved) /\ editor'.error = FALSE
      /\ editor'.timer = Autosave
  <2>1. editor' = Changed(editor, content, editor.saved)
    BY DEF Type
  <2> HIDE DEF content
  <2>2. QED BY <2>1 DEF Changed, Types, Editors
<1>3. /\ view'.loaded = view.loaded /\ view'.source = editor'.shown
      /\ view'.dirty = editor'.dirty
  <2>1. view' = Published(view, editor') /\ view \in Views /\ editor' \in Editors
    BY DEF Type, Types
  <2>2. QED BY <2>1, PublishedIs
<1>4. analysis'.at = "waiting"
  BY DEF Type, AnalysisOf
<1>5. view.loaded
  BY <1>1, <1>2 DEF Alone, SourceInv, Shows
<1>6. Waits' /\ Sends'
  BY <1>1 DEF SourceInv, Waits, Sends
<1>7. /\ editor.saved \subseteq content /\ content # editor.saved
      /\ editor.content \subseteq content
  BY <1>1 DEF SourceInv, Saves
<1> HIDE DEF content
<1>8. Saves'
  BY <1>1, <1>2, <1>7 DEF SourceInv, Saves
<1>9. Stored'
  BY <1>1, <1>2, <1>7 DEF SourceInv, Stored
<1>10. Shows'
  BY <1>1, <1>2, <1>3, <1>4, <1>5 DEF SourceInv, Shows
<1>11. QED BY <1>1, <1>6, <1>8, <1>9, <1>10 DEF SourceInv

\* A save starts, by itself or for a graph edit that waits for it.
LEMMA StartSaveKeeps ==
    ASSUME Types, Types', SourceInv, Alone, NEW caller \in Drawn \cup {NoOne}, NEW v \in Views,
           CanSave, StartSave(caller, v),
           v.source = view.source, v.dirty = view.dirty, v.loaded = view.loaded,
           UNCHANGED <<disk, load, analysis>>,
           \A d \in Drawn : layoutCalls'[d].at # "idle" => layoutCalls[d].at # "idle",
           \/ caller = NoOne /\ calls' = calls
           \/ /\ caller \in Drawn /\ calls' = [calls EXCEPT ![caller] = [NoCall EXCEPT !.at = "save"]]
              /\ layoutCalls'[caller].at = "idle"
    PROVE  SourceInv'
<1> DEFINE e == [editor EXCEPT !.timer = FALSE, !.error = FALSE]
<1>1. e \in Editors /\ editor' = e /\ view' = Published(v, e)
  BY DEF StartSave, Types, Editors
<1>2. /\ editor'.content = editor.content /\ editor'.saved = editor.saved
      /\ editor'.shown = editor.shown /\ editor'.dirty = editor.dirty
  BY <1>1 DEF Types, Editors
<1>3. /\ view'.loaded = view.loaded /\ view'.source = editor.shown
      /\ view'.dirty = editor.dirty
  BY <1>1, <1>2, PublishedIs
<1>4. /\ saving.at = "no" /\ saving'.at = "writing" /\ saving'.text = editor.content
      /\ saving'.caller = caller
  <2>1. saving' = [NotSaving EXCEPT !.at = "writing", !.text = editor.content, !.caller = caller]
    BY DEF StartSave
  <2>2. saving.at = "no"
    BY DEF CanSave
  <2>3. QED BY <2>1, <2>2 DEF NotSaving
<1>5. /\ editor.content # editor.saved /\ editor.saved \subseteq editor.content
      /\ editor.shown \subseteq editor.content
  BY DEF CanSave, SourceInv, Saves
<1>6. \A d \in Drawn : calls[d].at \notin {"asked", "read", "written", "save"}
  <2>1. NoOne \notin Drawn
    BY EditsAssumption
  <2>2. QED BY <1>4, <1>5, <2>1 DEF Alone, AtServer, SourceInv, Waits
<1>7. \A d \in Drawn : /\ d = caller => calls'[d].at = "save"
                       /\ d # caller => calls'[d] = calls[d]
  <2>1. NoOne \notin Drawn
    BY EditsAssumption
  <2>2. [NoCall EXCEPT !.at = "save"].at = "save"
    BY DEF NoCall
  <2>3. QED BY <2>1, <2>2 DEF Types
<1>8. Waits'
  <2>1. saving'.at # "no"
    BY <1>4
  <2>2. ASSUME NEW d \in Drawn
        PROVE  /\ calls'[d].at = "save" <=> saving'.caller = d
               /\ layoutCalls'[d].at # "idle" => calls'[d].at = "layout"
    BY <1>2, <1>4, <1>6, <1>7, EditsAssumption DEF SourceInv, Waits
  <2>3. QED BY <2>1, <2>2 DEF Waits
<1>9. Saves'
  BY <1>2, <1>4, <1>5 DEF SourceInv, Saves
<1>10. Stored'
  BY <1>2, <1>4, <1>6 DEF SourceInv, Stored, Own
<1>11. Sends'
  BY <1>6, <1>7 DEF Sends
<1>12. Shows'
  <2>1. view.loaded
    BY <1>5 DEF SourceInv, Shows
  <2>2. QED BY <1>2, <1>3, <2>1 DEF SourceInv, Shows, Own
<1>13. QED BY <1>8, <1>9, <1>10, <1>11, <1>12 DEF SourceInv

LEMMA SaveStartsKeeps ==
    ASSUME Types, Types', SourceInv, Alone, SaveCommand \/ AutosaveFires
    PROVE  SourceInv' /\ UNCHANGED disk
<1>0. UNCHANGED <<disk, load, analysis, pending, layoutCalls, calls>>
  BY DEF SaveCommand, AutosaveFires
<1>1. CASE CanSave /\ StartSave(NoOne, view)
  <2>1. view \in Views
    BY DEF Types
  <2>2. QED BY <1>0, <1>1, <2>1, StartSaveKeeps
<1>2. CASE /\ ~ CanSave /\ saving.at = "no"
           /\ editor' = [editor EXCEPT !.timer = FALSE] /\ UNCHANGED <<saving, view>>
  <2>1. /\ editor'.content = editor.content /\ editor'.saved = editor.saved
        /\ editor'.shown = editor.shown /\ editor'.dirty = editor.dirty
        /\ editor'.error = editor.error
    BY <1>2 DEF Types, Editors
  <2>2. editor.content = editor.saved
    BY <1>2 DEF CanSave
  <2>3. Saves'
    BY <1>2, <2>1, <2>2 DEF SourceInv, Saves
  <2>4. QED BY <1>0, <1>2, <2>1, <2>3 DEF SourceInv, Waits, Stored, Sends, Shows, Own
<1>3. QED BY <1>0, <1>1, <1>2 DEF SaveCommand, AutosaveFires

\* While the editor writes, no graph edit is on its way to the file.
LEMMA FileWriteKeeps ==
    ASSUME Types, Types', SourceInv, Alone, FileWrite
    PROVE  SourceInv' /\ Own(disk.source) \subseteq disk'.source
<1>0. UNCHANGED <<editor, view, load, analysis, pending, layoutCalls, calls>>
  BY DEF FileWrite
<1>1. /\ saving.at = "writing" /\ saving'.at = "written" /\ saving'.text = saving.text
      /\ saving'.caller = saving.caller /\ disk'.source = saving.text
  BY DEF FileWrite, Types, Savings
<1>2. \A d \in Drawn : calls[d].at \notin {"asked", "read", "written"}
  BY <1>1 DEF Alone, AtServer
<1>3. /\ Own(disk.source) \subseteq saving.text /\ editor.saved \subseteq saving.text
      /\ saving.text \subseteq editor.content
  BY <1>1 DEF SourceInv, Stored, Saves
<1>4. Waits' /\ Saves' /\ Sends'
  BY <1>0, <1>1, <1>2 DEF SourceInv, Waits, Saves, Sends
<1>5. Stored'
  BY <1>0, <1>1, <1>3 DEF Stored, Own
<1>6. Shows'
  BY <1>0, <1>1 DEF SourceInv, Shows
<1>7. QED BY <1>1, <1>3, <1>4, <1>5, <1>6 DEF SourceInv

LEMMA FileWrittenKeeps ==
    ASSUME Types, Types', SourceInv, FileWritten
    PROVE  SourceInv' /\ UNCHANGED disk
<1>0. UNCHANGED <<disk, view, load, analysis, pending, layoutCalls, calls>>
  BY DEF FileWritten
<1>1. /\ saving.at = "written" /\ saving'.at = "refreshing" /\ saving'.text = saving.text
      /\ saving'.caller = saving.caller /\ saving'.after = editor.content
  BY DEF FileWritten, Types, Savings
<1>2. /\ editor'.content = editor.content /\ editor'.saved = saving.text
      /\ editor'.shown = editor.shown /\ editor'.dirty = editor.dirty
  BY DEF FileWritten, Types, Editors
<1>3. Waits' /\ Sends'
  BY <1>0, <1>1, <1>2 DEF SourceInv, Waits, Sends
<1>4. Saves'
  BY <1>1, <1>2 DEF SourceInv, Saves
<1>5. Stored' /\ Shows'
  BY <1>0, <1>1, <1>2 DEF SourceInv, Stored, Shows, Own
<1>6. QED BY <1>0, <1>3, <1>4, <1>5 DEF SourceInv

LEMMA RefreshServedKeeps ==
    ASSUME Types, Types', SourceInv, RefreshServed
    PROVE  SourceInv' /\ UNCHANGED disk
<1>0. UNCHANGED <<disk, editor, view, load, analysis, pending, layoutCalls, calls>>
  BY DEF RefreshServed
<1>1. /\ saving.at = "refreshing" /\ saving'.at = "refreshed" /\ saving'.text = saving.text
      /\ saving'.caller = saving.caller /\ saving'.after = saving.after
  BY DEF RefreshServed, Types, Savings
<1>2. QED
  BY <1>0, <1>1 DEF SourceInv, Waits, Saves, Stored, Sends, Shows, Own

\* What becomes of the calls when a save ends: the one that waits for it goes on.
LEMMA ResumedIs ==
    ASSUME Types, SourceInv, NEW call \in Calls, saving.at # "no"
    PROVE  \A d \in Drawn :
             /\ saving.caller = d => Resumed(call)[d] = call
             /\ saving.caller # d => Resumed(call)[d] = calls[d] /\ calls[d].at # "save"
BY DEF Resumed, Types, SourceInv, Waits

LEMMA NoCallIs == NoCall.at = "idle"
BY DEF NoCall

LEMMA SaveGivesUpKeeps ==
    ASSUME Types, Types', SourceInv, NEW again \in BOOLEAN, SaveGivesUp(again),
           saving.at # "no", UNCHANGED <<disk, load, analysis, pending, layoutCalls>>
    PROVE  SourceInv'
<1> DEFINE timer == again \/ editor.timer
           e == [editor EXCEPT !.error = TRUE, !.timer = timer]
<1>1. e \in Editors /\ editor' = e /\ view' = Published(view, e)
  <2>1. timer \in BOOLEAN
    OBVIOUS
  <2>2. editor' = e /\ view' = Published(view, e)
    BY Zenon DEF SaveGivesUp
  <2> HIDE DEF timer
  <2>3. e \in Editors
    BY <2>1 DEF Types, Editors
  <2>4. QED BY <2>2, <2>3
<1>2. /\ editor'.content = editor.content /\ editor'.saved = editor.saved
      /\ editor'.shown = editor.shown /\ editor'.dirty = editor.dirty /\ editor'.error
  <2> HIDE DEF timer
  <2>1. QED BY <1>1 DEF Types, Editors
<1> HIDE DEF e
<1>3. /\ view'.loaded = view.loaded /\ view'.source = editor.shown
      /\ view'.dirty = editor.dirty
  BY <1>1, <1>2, PublishedIs DEF Types
<1>4. saving'.at = "no" /\ saving'.caller = NoOne
  BY DEF SaveGivesUp, NotSaving
<1>5. \A d \in Drawn :
        \/ calls[d].at = "save" /\ saving.caller = d /\ calls'[d].at = "idle"
        \/ calls[d].at # "save" /\ saving.caller # d /\ calls'[d] = calls[d]
  <2>1. calls' = Resumed(NoCall) /\ NoCall \in Calls
    BY NoneTypes DEF SaveGivesUp
  <2>2. QED BY <2>1, ResumedIs, NoCallIs DEF SourceInv, Waits
<1>6. Waits'
  <2>1. \A d \in Drawn : saving'.caller # d
    BY <1>4, EditsAssumption
  <2>2. \A d \in Drawn : layoutCalls'[d].at # "idle" => calls'[d].at = "layout"
    BY <1>5 DEF SourceInv, Waits
  <2>3. QED BY <1>4, <1>5, <2>1, <2>2 DEF Waits
<1>7. Saves'
  BY <1>2, <1>4 DEF SourceInv, Saves
<1>8. Stored'
  BY <1>2, <1>4, <1>5 DEF SourceInv, Stored, Own
<1>9. Sends'
  BY <1>5 DEF SourceInv, Sends
<1>10. Shows'
  <2>1. view.loaded
    BY DEF SourceInv, Shows
  <2>2. QED BY <1>2, <1>3, <2>1 DEF SourceInv, Shows, Own
<1>11. QED BY <1>6, <1>7, <1>8, <1>9, <1>10 DEF SourceInv

LEMMA SaveFailsKeeps ==
    ASSUME Types, Types', SourceInv, FileWriteFails \/ RefreshFails
    PROVE  SourceInv' /\ UNCHANGED disk
<1>1. CASE FileWriteFails
  <2>1. SaveGivesUp(FALSE) /\ saving.at # "no"
        /\ UNCHANGED <<disk, load, analysis, pending, layoutCalls>>
    BY <1>1 DEF FileWriteFails
  <2>2. QED BY <2>1, SaveGivesUpKeeps
<1>2. CASE RefreshFails
  <2> DEFINE again == Autosave /\ editor.content # editor.saved
  <2>1. SaveGivesUp(again) /\ saving.at # "no"
        /\ UNCHANGED <<disk, load, analysis, pending, layoutCalls>>
    BY <1>2 DEF RefreshFails
  <2>2. again \in BOOLEAN
    OBVIOUS
  <2> HIDE DEF again
  <2>3. QED BY <2>1, <2>2, SaveGivesUpKeeps
<1>3. QED BY <1>1, <1>2

\* A save ends; what was typed since the document was read again stays to be saved.
LEMMA RefreshReplyKeeps ==
    ASSUME Types, Types', SourceInv, RefreshReply
    PROVE  SourceInv' /\ UNCHANGED disk
<1>0. UNCHANGED <<disk, load, analysis, pending, layoutCalls>> /\ saving.at = "refreshed"
  BY DEF RefreshReply
<1> DEFINE timer == editor.timer \/ (Autosave /\ editor.content # editor.saved)
           dirty == saving.after # saving.text
<1>1. /\ editor'.content = editor.content /\ editor'.saved = editor.saved
      /\ editor'.shown = saving.after /\ editor'.dirty = (saving.after # saving.text)
      /\ editor'.error = FALSE
      /\ editor'.timer = (editor.timer \/ (Autosave /\ editor.content # editor.saved))
  <2>1. editor' = [editor EXCEPT !.shown = saving.after, !.dirty = dirty, !.error = FALSE,
                                 !.timer = timer]
    BY Zenon DEF RefreshReply, AfterSave
  <2>2. timer = (editor.timer \/ (Autosave /\ editor.content # editor.saved))
        /\ dirty = (saving.after # saving.text)
    OBVIOUS
  <2> HIDE DEF timer, dirty
  <2>3. QED BY <2>1, <2>2 DEF Types, Editors
<1>2. /\ view.loaded /\ view'.loaded = TRUE /\ view'.source = editor'.shown
      /\ view'.dirty = editor'.dirty
  <2>1. view.loaded /\ view.loaded = TRUE
    BY <1>0 DEF SourceInv, Shows, Types, Views
  <2> DEFINE v == IF view.source = saving.text THEN ViewOf(saving.doc) ELSE view
  <2>2. v \in Views /\ v.loaded = TRUE
    BY <2>1, ViewOfType, ViewOfIs DEF Types, Savings
  <2>3. view' = Published(v, editor') /\ editor' \in Editors
    BY DEF RefreshReply, Types
  <2> HIDE DEF v
  <2>4. QED BY <2>1, <2>2, <2>3, PublishedIs
<1>3. saving'.at = "no" /\ saving'.caller = NoOne
  BY DEF RefreshReply, NotSaving
<1>4. /\ editor.saved = saving.text /\ saving.text \subseteq saving.after
      /\ saving.after \subseteq editor.content
  BY <1>0 DEF SourceInv, Saves
<1>5. \A d \in Drawn :
        \/ calls[d].at = "save" /\ saving.caller = d /\ calls'[d].at = "asked"
        \/ calls[d].at # "save" /\ saving.caller # d /\ calls'[d] = calls[d]
  <2>1. Sent(saving.doc.base) \in Calls /\ Sent(saving.doc.base).at = "asked"
    <3>1. saving.doc.base \in Texts
      BY DEF Types, Savings, Documents
    <3>2. Sent(saving.doc.base).at = "asked"
      BY DEF Sent, NoCall
    <3>3. QED BY <3>1, <3>2, SentType
  <2>2. calls' = Resumed(Sent(saving.doc.base))
    BY DEF RefreshReply
  <2>3. QED BY <1>0, <2>1, <2>2, ResumedIs DEF SourceInv, Waits
<1>6. Waits'
  <2>1. \A d \in Drawn : saving'.caller # d
    BY <1>3, EditsAssumption
  <2>2. \A d \in Drawn : layoutCalls'[d].at # "idle" => calls'[d].at = "layout"
    BY <1>0, <1>5 DEF SourceInv, Waits
  <2>3. QED BY <1>3, <1>5, <2>1, <2>2 DEF Waits
<1>7. Saves'
  <2>1. editor'.content = editor'.saved => saving.after = saving.text
    BY <1>1, <1>4
  <2>2. /\ editor'.saved \subseteq editor'.content /\ editor'.shown \subseteq editor'.content
        /\ editor'.content = editor'.saved => editor'.shown = editor'.content /\ ~ editor'.dirty
    BY <1>1, <1>4, <2>1
  <2>3. QED BY <1>3, <2>2 DEF Saves
<1>8. Stored'
  BY <1>0, <1>1, <1>3, <1>5 DEF SourceInv, Stored, Own
<1>9. Sends'
  BY <1>0, <1>5 DEF SourceInv, Sends
<1>10. Shows'
  BY <1>0, <1>1, <1>2 DEF SourceInv, Shows, Own
<1>11. QED BY <1>0, <1>6, <1>7, <1>8, <1>9, <1>10 DEF SourceInv

-----------------------------------------------------------------------------
(* The layout and the graph.                                                *)

\* A graph edit that waited for no save, and is not at the server, goes on or ends.
LEMMA CallChanges ==
    ASSUME Types, SourceInv, NEW d \in Drawn, NEW call \in Calls,
           calls' = [calls EXCEPT ![d] = call], call.at \in {"idle", "asked", "layout"},
           calls[d].at \in {"idle", "layout"},
           UNCHANGED <<editor, saving>>, disk'.source = disk.source,
           \A e \in Drawn \ {d} : layoutCalls'[e].at # "idle" => layoutCalls[e].at # "idle",
           call.at = "layout" \/ layoutCalls'[d].at = "idle",
           view.loaded, view'.source = view.source, view'.dirty = view.dirty,
           view'.loaded = view.loaded, UNCHANGED <<load, analysis>>
    PROVE  SourceInv'
<1>1. calls'[d] = call /\ \A e \in Drawn : e # d => calls'[e] = calls[e]
  BY DEF Types
<1>2. Waits'
  BY <1>1 DEF SourceInv, Waits
<1>3. Saves'
  BY DEF SourceInv, Saves
<1>4. Stored'
  <2>1. \A e \in Drawn : calls'[e].at = "written" <=> calls[e].at = "written"
    BY <1>1
  <2>2. QED BY <2>1 DEF SourceInv, Stored, Own
<1>5. Sends'
  BY <1>1 DEF SourceInv, Sends, Own
<1>6. Shows'
  BY DEF SourceInv, Shows, Own
<1>7. QED BY <1>2, <1>3, <1>4, <1>5, <1>6 DEF SourceInv

\* A graph edit whose layout is saved, or had none to save, saves the text or is sent.
LEMMA GoesOnKeeps ==
    ASSUME Types, Types', SourceInv, Alone, NEW d \in Drawn, NEW v \in Views, GoesOn(d, v),
           v.source = view.source, v.dirty = view.dirty, v.loaded = view.loaded, view.loaded,
           UNCHANGED <<disk, load, analysis>>,
           calls[d].at \in {"idle", "layout"},
           \A e \in Drawn : layoutCalls'[e].at # "idle" => layoutCalls[e].at # "idle",
           layoutCalls'[d].at = "idle"
    PROVE  SourceInv'
<1>1. CASE v.dirty /\ CanSave
  <2>1. StartSave(d, v) /\ calls' = [calls EXCEPT ![d] = [NoCall EXCEPT !.at = "save"]]
    BY <1>1 DEF GoesOn
  <2>2. QED BY <1>1, <2>1, StartSaveKeeps
<1>2. CASE ~ (v.dirty /\ CanSave)
  <2> DEFINE call == IF v.dirty THEN NoCall ELSE Sent(v.base)
  <2>1. /\ calls' = [calls EXCEPT ![d] = call] /\ view' = v /\ UNCHANGED <<editor, saving>>
    BY <1>2 DEF GoesOn
  <2>2. call \in Calls
    BY NoneTypes, SentType DEF Views
  <2>3. call.at \in {"idle", "asked"}
    BY DEF NoCall, Sent
  <2> HIDE DEF call
  <2>4. QED BY <2>1, <2>2, <2>3, CallChanges
<1>3. QED BY <1>1, <1>2

LEMMA MovesKeep ==
    ASSUME Types, SourceInv, NEW m \in Moves, Move(m) \/ LayoutTimer(m)
    PROVE  SourceInv' /\ UNCHANGED disk
<1>1. UNCHANGED <<disk, editor, saving, load, analysis, calls>>
  BY DEF Move, LayoutTimer
<1>2. view'.source = view.source /\ view'.dirty = view.dirty /\ view'.loaded = view.loaded
  BY DEF Move, LayoutTimer, Types, Views
<1>3. \A d \in Drawn : layoutCalls'[d] = layoutCalls[d]
  BY EditsAssumption DEF Move, LayoutTimer, SendLayout, Types, Callers
<1>4. QED BY <1>1, <1>2, <1>3, ViewStays

LEMMA LayoutServedKeeps ==
    ASSUME Types, SourceInv, NEW c \in Callers, LayoutServed(c)
    PROVE  SourceInv' /\ disk'.source = disk.source
<1>1. UNCHANGED <<editor, saving, view, load, analysis, pending, calls>>
  BY DEF LayoutServed
<1>2. disk'.source = disk.source
  BY DEF LayoutServed, Types
<1>3. \A d \in Drawn : layoutCalls'[d].at # "idle" => layoutCalls[d].at # "idle"
  BY DEF LayoutServed, Types, Callers
<1>4. QED BY <1>1, <1>2, <1>3, ViewStays

LEMMA LayoutReplyKeeps ==
    ASSUME Types, Types', SourceInv, Alone, NEW c \in Callers, LayoutReply(c)
    PROVE  SourceInv' /\ UNCHANGED disk
<1>0. /\ layoutCalls[c].at # "idle" /\ UNCHANGED <<disk, load, analysis>>
      /\ layoutCalls' = [layoutCalls EXCEPT ![c] = NoLayoutCall]
  BY DEF LayoutReply
<1>1. /\ layoutCalls'[c].at = "idle"
      /\ \A e \in Drawn : layoutCalls'[e].at # "idle" => layoutCalls[e].at # "idle"
  BY <1>0 DEF Types, Callers, NoLayoutCall
<1> DEFINE v == [view EXCEPT !.layout = layoutCalls[c].layout, !.layoutBase = layoutCalls[c].layout]
<1>2. /\ v \in Views /\ v.source = view.source /\ v.dirty = view.dirty
      /\ v.loaded = view.loaded /\ v.base = view.base
  <2>1. layoutCalls[c].layout \in Layouts /\ view \in Views
    BY DEF Types, LayoutCalls
  <2>2. QED BY <2>1 DEF Views
<1>3. c \in Drawn => calls[c].at = "layout" /\ view.loaded
  BY <1>0 DEF SourceInv, Waits, Shows
<1>4. CASE layoutCalls[c].at = "saved" /\ c \in Drawn
  <2>1. GoesOn(c, v)
    BY <1>4 DEF LayoutReply
  <2> HIDE DEF v
  <2>2. QED BY <1>0, <1>1, <1>2, <1>3, <1>4, <2>1, GoesOnKeeps
<1>5. CASE layoutCalls[c].at # "saved" /\ c \in Drawn
  <2>1. calls' = [calls EXCEPT ![c] = NoCall] /\ UNCHANGED <<editor, saving, view>>
    BY <1>5 DEF LayoutReply
  <2>2. NoCall \in Calls
    BY NoneTypes
  <2>3. QED BY <1>0, <1>1, <1>3, <1>5, <2>1, <2>2, NoCallIs, CallChanges
<1>6. CASE c \notin Drawn
  <2>1. UNCHANGED <<editor, saving, calls>> /\ (view' = v \/ view' = view)
    BY <1>6 DEF LayoutReply
  <2> HIDE DEF v
  <2>2. view'.source = view.source /\ view'.dirty = view.dirty /\ view'.loaded = view.loaded
    BY <1>2, <2>1
  <2>3. QED BY <1>0, <1>1, <2>1, <2>2, ViewStays
<1>7. QED BY <1>4, <1>5, <1>6

LEMMA DrawKeeps ==
    ASSUME Types, Types', SourceInv, Alone, NEW d \in Drawn, Draw(d)
    PROVE  SourceInv' /\ UNCHANGED disk
<1>0. view.loaded /\ calls[d].at = "idle" /\ UNCHANGED <<disk, load, analysis>>
  BY DEF Draw
<1>1. layoutCalls[d].at = "idle"
  BY <1>0 DEF SourceInv, Waits
<1>2. CASE pending.layout
  <2> DEFINE call == [NoCall EXCEPT !.at = "layout"]
  <2>1. /\ UNCHANGED <<editor, saving, view>> /\ calls' = [calls EXCEPT ![d] = call]
        /\ SendLayout(d)
    BY <1>2 DEF Draw
  <2>2. call \in Calls /\ call.at = "layout"
    BY NoneTypes DEF Calls
  <2> HIDE DEF call
  <2>3. \A e \in Drawn : e # d => layoutCalls'[e] = layoutCalls[e]
    BY <2>1 DEF SendLayout, Types, Callers
  <2>4. QED BY <1>0, <2>1, <2>2, <2>3, CallChanges
<1>3. CASE ~ pending.layout
  <2>1. GoesOn(d, view) /\ layoutCalls' = layoutCalls
    BY <1>3 DEF Draw
  <2>2. view \in Views
    BY DEF Types
  <2>3. QED BY <1>0, <1>1, <2>1, <2>2, GoesOnKeeps
<1>4. QED BY <1>2, <1>3

\* The server reads, writes and answers; the editor has nothing to save meanwhile.
LEMMA MutationKeeps ==
    ASSUME Types, Types', SourceInv, Alone, NEW d \in Drawn,
           MutationRead(d) \/ MutationWrite(d) \/ MutationReply(d)
    PROVE  SourceInv' /\ Own(disk.source) \subseteq disk'.source
<1>0. /\ calls[d].at \in {"asked", "read", "written"} /\ calls[d] \in Calls
      /\ UNCHANGED <<saving, load, layoutCalls>>
  BY DEF MutationRead, MutationWrite, MutationReply, Types
<1>1. /\ saving.at = "no" /\ editor.content = editor.saved /\ view.loaded
      /\ layoutCalls[d].at = "idle"
      /\ \A e \in Drawn : e # d => calls[e].at \in {"idle", "layout"}
      /\ \A e \in Drawn : calls[e].at # "save" /\ saving.caller # e
  <2>1. /\ saving.at = "no" /\ editor.content = editor.saved
        /\ \A e \in Drawn : e # d => ~ AtServer(e)
    BY <1>0 DEF Alone, AtServer
  <2>2. view.loaded /\ layoutCalls[d].at = "idle"
    BY <1>0 DEF SourceInv, Waits, Shows
  <2>3. \A e \in Drawn : saving.caller # e
    BY <2>1, EditsAssumption DEF SourceInv, Waits
  <2>4. \A e \in Drawn : calls[e].at # "save" /\ calls[e] \in Calls
    BY <2>3 DEF SourceInv, Waits, Types
  <2>5. QED BY <2>1, <2>2, <2>3, <2>4 DEF AtServer, Calls
<1>2. ASSUME NEW call \in Calls, calls' = [calls EXCEPT ![d] = call], call.at \notin {"save", "layout"}
      PROVE  /\ calls'[d] = call /\ \A e \in Drawn : e # d => calls'[e] = calls[e]
             /\ Waits'
  <2>1. /\ calls'[d] = call /\ \A e \in Drawn : e # d => calls'[e] = calls[e]
    BY <1>2 DEF Types
  <2>2. Waits'
    BY <1>0, <1>1, <1>2, <2>1 DEF SourceInv, Waits
  <2>3. QED BY <2>1, <2>2
<1>3. CASE MutationRead(d)
  <2>0. UNCHANGED <<disk, editor, view, analysis>>
    BY <1>3 DEF MutationRead
  <2>1. PICK call \in Calls :
          /\ calls' = [calls EXCEPT ![d] = call]
          /\ \/ call.at = "idle"
             \/ call.at = "read" /\ call.base = disk.source
    <3>1. PICK ok \in Accepted :
            calls' = [calls EXCEPT ![d] = IF ok /\ Current(calls[d].base, disk.source)
                                          THEN [calls[d] EXCEPT !.at = "read"] ELSE NoCall]
      BY <1>3 DEF MutationRead, Types
    <3> DEFINE read == [calls[d] EXCEPT !.at = "read"]
    <3>2. read \in Calls /\ read.at = "read" /\ read.base = calls[d].base
      BY <1>0 DEF Calls
    <3> HIDE DEF read
    <3>3. CASE ok /\ Current(calls[d].base, disk.source)
      <4>1. calls' = [calls EXCEPT ![d] = read] /\ calls[d].base = disk.source
        BY <3>1, <3>3 DEF Current, read
      <4>2. QED BY <3>2, <4>1
    <3>4. CASE ~ (ok /\ Current(calls[d].base, disk.source))
      BY <3>1, <3>4, NoneTypes, NoCallIs
    <3>5. QED BY <3>3, <3>4
  <2>2. /\ calls'[d] = call /\ \A e \in Drawn : e # d => calls'[e] = calls[e]
        /\ Waits'
    BY <1>2, <2>0, <2>1
  <2>3. Saves' /\ Shows'
    BY <1>0, <1>1, <2>0 DEF SourceInv, Saves, Shows
  <2>4. Stored'
    <3>1. calls[d].at = "asked"
      BY <1>3 DEF MutationRead
    <3>2. \A e \in Drawn : calls[e].at # "written"
      BY <1>1, <3>1
    <3>3. QED BY <1>0, <2>0, <3>2 DEF SourceInv, Stored
  <2>5. Sends'
    BY <1>0, <1>1, <2>0, <2>1, <2>2 DEF Sends
  <2>6. QED BY <2>0, <2>2, <2>3, <2>4, <2>5 DEF SourceInv, Own
<1>4. CASE MutationWrite(d)
  <2> DEFINE text == calls[d].base \cup {d}
             doc == [source |-> text, base |-> text, layout |-> disk.layout]
             call == [calls[d] EXCEPT !.at = "written", !.doc = doc]
  <2>0. calls[d].at = "read" /\ UNCHANGED <<editor, view, analysis>>
        /\ calls' = [calls EXCEPT ![d] = call] /\ disk'.source = text
    BY <1>4 DEF MutationWrite, Types
  <2>1. doc \in Documents /\ doc.source = text
    <3>1. text \in Texts
      BY <1>0 DEF Calls, Texts
    <3>2. disk.layout \in Layouts
      BY DEF Types
    <3>3. QED BY <3>1, <3>2 DEF Documents
  <2>2. Own(calls[d].base) = Own(disk.source) /\ Own(editor.saved) \subseteq disk.source
    BY <2>0 DEF SourceInv, Sends, Stored
  <2>3. Own(disk.source) \subseteq text /\ Own(editor.saved) \subseteq text
    BY <2>2 DEF Own
  <2> HIDE DEF text, doc
  <2>4. call \in Calls /\ call.at = "written" /\ call.doc = doc
    BY <1>0, <2>1 DEF Calls
  <2> HIDE DEF call
  <2>5. /\ calls'[d] = call /\ \A e \in Drawn : e # d => calls'[e] = calls[e]
        /\ Waits'
    BY <1>2, <2>0, <2>4
  <2>6. Saves' /\ Shows'
    BY <1>0, <1>1, <2>0 DEF SourceInv, Saves, Shows
  <2>7. Stored'
    BY <1>0, <1>1, <2>0, <2>3, <2>4, <2>5 DEF Stored
  <2>8. Sends'
    BY <1>0, <1>1, <2>0, <2>1, <2>4, <2>5 DEF Sends
  <2>9. QED BY <2>0, <2>3, <2>5, <2>6, <2>7, <2>8 DEF SourceInv
<1>5. CASE MutationReply(d)
  <2> DEFINE text == calls[d].doc.source
  <2>0. /\ calls[d].at = "written" /\ UNCHANGED disk
        /\ calls' = [calls EXCEPT ![d] = NoCall] /\ analysis'.at = "waiting"
    BY <1>5 DEF MutationReply, AnalysisOf
  <2>1. text \in Texts /\ calls[d].doc \in Documents
    BY <1>0 DEF Calls, Documents
  <2>2. /\ editor'.content = text /\ editor'.saved = text /\ editor'.shown = text
        /\ editor'.dirty = FALSE
    <3>1. editor' = Changed(editor, text, text)
      BY <1>5 DEF MutationReply
    <3> HIDE DEF text
    <3>2. QED BY <3>1 DEF Changed, Types, Editors
  <2>3. view'.loaded = TRUE /\ view'.source = text /\ view'.dirty = FALSE
    <3>1. view' = Published(ViewOf(calls[d].doc), editor')
      BY <1>5 DEF MutationReply
    <3>2. ViewOf(calls[d].doc) \in Views /\ editor' \in Editors
      BY <2>1, ViewOfType DEF Types
    <3>3. QED BY <2>2, <3>1, <3>2, PublishedIs, ViewOfIs
  <2>4. Own(text) = Own(disk.source)
    BY <2>0 DEF SourceInv, Sends
  <2> HIDE DEF text
  <2>5. /\ calls'[d] = NoCall /\ \A e \in Drawn : e # d => calls'[e] = calls[e]
        /\ Waits'
    BY <1>2, <2>0, NoneTypes, NoCallIs
  <2>6. \A e \in Drawn : calls'[e].at \in {"idle", "layout"}
    BY <1>1, <2>5, NoCallIs
  <2>8. Saves'
    BY <1>0, <1>1, <2>2 DEF Saves
  <2>9. Stored'
    BY <1>0, <1>1, <2>0, <2>2, <2>4 DEF Stored, Own
  <2>10. Sends' /\ Shows'
    BY <1>0, <1>1, <2>0, <2>2, <2>3, <2>6 DEF SourceInv, Sends, Shows
  <2>11. QED BY <2>0, <2>5, <2>8, <2>9, <2>10 DEF SourceInv, Own
<1>6. QED BY <1>3, <1>4, <1>5

LEMMA ForeignKeeps ==
    ASSUME Types, SourceInv, NEW f \in Foreign, ForeignEdit(f)
    PROVE  SourceInv' /\ disk.source \subseteq disk'.source
<1>0. UNCHANGED <<editor, saving, view, load, analysis, pending, layoutCalls, calls>>
      /\ disk'.source = disk.source \cup {f}
  BY DEF ForeignEdit, Types
<1>1. Own(disk'.source) = Own(disk.source)
  BY <1>0 DEF Own
<1>2. Waits' /\ Saves'
  BY <1>0 DEF SourceInv, Waits, Saves
<1>3. Stored' /\ Sends' /\ Shows'
  BY <1>0, <1>1 DEF SourceInv, Stored, Sends, Shows, Own
<1>4. QED BY <1>0, <1>2, <1>3 DEF SourceInv

-----------------------------------------------------------------------------
(* The theorems.                                                            *)

LEMMA InitSource == Init => SourceInv
<1> SUFFICES ASSUME Init PROVE SourceInv
  OBVIOUS
<1>1. \A d \in Drawn : calls[d].at = "idle" /\ layoutCalls[d].at = "idle"
  BY DEF Init, NoCall, NoLayoutCall, Callers
<1>2. saving.at = "no" /\ saving.caller = NoOne /\ analysis.at = "idle"
  BY DEF Init, NotSaving, AnalysisOf
<1>3. Waits
  BY <1>1, <1>2, EditsAssumption DEF Waits
<1>4. Saves /\ Stored /\ Sends /\ Shows
  BY <1>1, <1>2 DEF Init, Saves, Stored, Sends, Shows, Own
<1>5. QED BY <1>3, <1>4 DEF SourceInv

LEMMA StepSource ==
    ASSUME Types, Types', SourceInv, Alone, Alone', Step
    PROVE  SourceInv' /\ Own(disk.source) \subseteq disk'.source
<1>1. CASE UNCHANGED disk /\ SourceInv'
  BY <1>1 DEF Own
<1>2. CASE Replies
  <2>1. UNCHANGED disk
    BY <1>2 DEF Replies, LoadServed, LoadReply, AnalysisServed, AnalysisFails, AnalysisReply
  <2>2. QED BY <1>1, <1>2, <2>1, RepliesKeep
<1>3. CASE Save \/ SaveCommand
  <2>1. CASE FileWrite
    BY <2>1, FileWriteKeeps
  <2>2. CASE AutosaveFires \/ SaveCommand
    BY <1>1, <2>2, SaveStartsKeeps
  <2>3. CASE FileWriteFails \/ RefreshFails
    BY <1>1, <2>3, SaveFailsKeeps
  <2>4. CASE FileWritten \/ RefreshServed \/ RefreshReply
    BY <1>1, <2>4, FileWrittenKeeps, RefreshServedKeeps, RefreshReplyKeeps
  <2>5. QED BY <1>3, <2>1, <2>2, <2>3, <2>4 DEF Save
<1>4. CASE (\E e \in Typed : Type(e)) \/ (\E d \in Drawn : Draw(d))
           \/ (\E m \in Moves : Move(m) \/ LayoutTimer(m))
  BY <1>1, <1>4, TypeKeeps, DrawKeeps, MovesKeep
<1>5. CASE \E c \in Callers : LayoutServed(c) \/ LayoutReply(c)
  BY <1>5, LayoutServedKeeps, LayoutReplyKeeps DEF Own
<1>6. CASE \E d \in Drawn : MutationRead(d) \/ MutationWrite(d) \/ MutationReply(d)
  BY <1>6, MutationKeeps
<1>7. CASE \E f \in Foreign : ForeignEdit(f)
  BY <1>7, ForeignKeeps DEF Own
<1>8. QED BY <1>2, <1>3, <1>4, <1>5, <1>6, <1>7 DEF Step

-----------------------------------------------------------------------------
(* With autosave, text that is not saved has a timer or a save, or an error *)
(* shows: this needs nothing of what crosses.                               *)

Scheduled ==
    Autosave /\ saving.at = "no" /\ editor.content # editor.saved =>
        editor.timer \/ editor.error

LEMMA StepScheduled ==
    ASSUME Types, Scheduled, Step
    PROVE  Scheduled'
<1>1. CASE UNCHANGED <<editor, saving>>
  BY <1>1 DEF Scheduled
<1>2. ASSUME saving'.at # "no" PROVE Scheduled'
  BY <1>2 DEF Scheduled
<1>3. ASSUME NEW caller, NEW v, StartSave(caller, v)
      PROVE  Scheduled'
  <2>1. saving' = [NotSaving EXCEPT !.at = "writing", !.text = editor.content, !.caller = caller]
    BY <1>3 DEF StartSave
  <2>2. saving'.at = "writing"
    BY <2>1 DEF NotSaving
  <2>3. QED BY <1>2, <2>2
<1>4. ASSUME NEW again, SaveGivesUp(again)
      PROVE  Scheduled'
  <2> DEFINE timer == again \/ editor.timer
  <2>1. editor' = [editor EXCEPT !.error = TRUE, !.timer = timer]
    BY <1>4, Zenon DEF SaveGivesUp
  <2> HIDE DEF timer
  <2>2. editor'.error
    BY <2>1 DEF Types, Editors
  <2>3. QED BY <2>2 DEF Scheduled
<1>5. ASSUME NEW content, NEW saved, editor' = Changed(editor, content, saved)
      PROVE  Scheduled'
  <2>1. editor'.timer = Autosave
    BY <1>5 DEF Changed, Types, Editors
  <2>2. QED BY <2>1 DEF Scheduled
<1>6. ASSUME NEW d \in Drawn, NEW v, GoesOn(d, v)
      PROVE  Scheduled'
  BY <1>1, <1>3, <1>6 DEF GoesOn
<1>7. CASE SaveCommand
  BY <1>3, <1>7 DEF SaveCommand
<1>8. CASE AutosaveFires
  <2>1. CASE CanSave
    BY <1>3, <1>8, <2>1 DEF AutosaveFires
  <2>2. CASE ~ CanSave
    <3>1. editor' = [editor EXCEPT !.timer = FALSE] /\ saving.at = "no"
      BY <1>8, <2>2 DEF AutosaveFires
    <3>2. editor'.content = editor.content /\ editor'.saved = editor.saved
      BY <3>1 DEF Types, Editors
    <3>3. QED BY <2>2, <3>1, <3>2 DEF CanSave, Scheduled
  <2>3. QED BY <2>1, <2>2
<1>9. CASE FileWriteFails \/ RefreshFails
  BY <1>4, <1>9 DEF FileWriteFails, RefreshFails
<1>10. CASE FileWrite \/ FileWritten \/ RefreshServed
  <2>1. saving'.at # "no"
    BY <1>10 DEF FileWrite, FileWritten, RefreshServed, Types, Savings
  <2>2. QED BY <1>2, <2>1
<1>11. CASE RefreshReply
  <2> DEFINE timer == editor.timer \/ (Autosave /\ editor.content # editor.saved)
             dirty == saving.after # saving.text
  <2>1. editor' = [editor EXCEPT !.shown = saving.after, !.dirty = dirty, !.error = FALSE,
                                 !.timer = timer]
    BY <1>11, Zenon DEF RefreshReply, AfterSave
  <2>2. timer = (editor.timer \/ (Autosave /\ editor.content # editor.saved))
    OBVIOUS
  <2> HIDE DEF timer, dirty
  <2>3. /\ editor'.content = editor.content /\ editor'.saved = editor.saved
        /\ editor'.timer = timer
    BY <2>1 DEF Types, Editors
  <2>4. QED BY <2>2, <2>3 DEF Scheduled
<1>12. CASE \E e \in Typed : Type(e)
  BY <1>5, <1>12 DEF Type
<1>13. CASE \E d \in Drawn : MutationReply(d)
  BY <1>5, <1>13 DEF MutationReply
<1>14. CASE \E d \in Drawn : Draw(d)
  BY <1>1, <1>6, <1>14 DEF Draw
<1>15. CASE \E c \in Callers : LayoutReply(c)
  <2>1. PICK c \in Callers : LayoutReply(c)
    BY <1>15
  <2> DEFINE v == [view EXCEPT !.layout = layoutCalls[c].layout,
                               !.layoutBase = layoutCalls[c].layout]
  <2>2. UNCHANGED <<editor, saving>> \/ (c \in Drawn /\ GoesOn(c, v))
    BY <2>1, Zenon DEF LayoutReply
  <2> HIDE DEF v
  <2>3. QED BY <1>1, <1>6, <2>2
<1>16. CASE Replies \/ (\E m \in Moves : Move(m) \/ LayoutTimer(m))
            \/ (\E c \in Callers : LayoutServed(c)) \/ (\E f \in Foreign : ForeignEdit(f))
            \/ (\E d \in Drawn : MutationRead(d) \/ MutationWrite(d))
  <2>1. UNCHANGED <<editor, saving>>
    BY <1>16 DEF Replies, LoadServed, LoadReply, AnalysisServed, AnalysisFails, AnalysisReply,
                 Move, LayoutTimer, LayoutServed, ForeignEdit, MutationRead, MutationWrite
  <2>2. QED BY <1>1, <2>1
<1>17. QED
  BY <1>7, <1>8, <1>9, <1>10, <1>11, <1>12, <1>13, <1>14, <1>15, <1>16 DEF Step, Save

-----------------------------------------------------------------------------
(* The theorems.                                                            *)

\* The inductive invariant: what holds until edits cross, and what always holds.
UntilCrossed ==
    /\ Crossing => crossed
    /\ ~ crossed => SourceInv
    /\ Scheduled

LEMMA InitUntilCrossed == Init => UntilCrossed
<1> SUFFICES ASSUME Init PROVE UntilCrossed
  OBVIOUS
<1>1. ~ Crossing
  BY DEF Init, Crossing, AtServer, NoCall
<1>2. SourceInv
  BY InitSource
<1>3. Scheduled
  BY DEF Init, Scheduled
<1>4. QED BY <1>1, <1>2, <1>3 DEF UntilCrossed

LEMMA StepUntilCrossed ==
    ASSUME TypeOK, UntilCrossed, [Next]_allVars
    PROVE  UntilCrossed' /\ (~ crossed' => Own(disk.source) \subseteq disk'.source)
<1>0. Types /\ Types' /\ crossed \in BOOLEAN /\ crossed' \in BOOLEAN
  BY StepType, TypeSplit, TypeSplitNext
<1>1. CASE Step /\ Noted
  <2>1. Crossing' => crossed'
    BY <1>1 DEF Noted
  <2>2. Scheduled'
    BY <1>0, <1>1, StepScheduled DEF UntilCrossed
  <2>3. ASSUME ~ crossed'
        PROVE  SourceInv' /\ Own(disk.source) \subseteq disk'.source
    <3>1. ~ crossed /\ ~ Crossing'
      BY <1>1, <2>3 DEF Noted
    <3>2. SourceInv /\ Alone /\ Alone'
      BY <3>1, AloneIs, AloneIsNext DEF UntilCrossed
    <3>3. QED BY <1>0, <1>1, <3>2, StepSource
  <2>4. QED BY <2>1, <2>2, <2>3 DEF UntilCrossed
<1>2. CASE UNCHANGED allVars
  <2>1. UNCHANGED <<disk, editor, saving, view, load, analysis, pending, layoutCalls, calls,
                    crossed>>
    BY <1>2 DEF allVars, vars
  <2>2. (Crossing <=> Crossing') /\ (Scheduled <=> Scheduled')
    BY <2>1 DEF Crossing, AtServer, Scheduled
  <2>3. SourceInv => SourceInv'
    BY <2>1 DEF SourceInv, Waits, Saves, Stored, Sends, Shows
  <2>4. QED BY <2>1, <2>2, <2>3 DEF UntilCrossed, Own
<1>3. QED BY <1>1, <1>2, NextSteps

LEMMA UntilCrossedHolds == Spec => [](TypeOK /\ UntilCrossed)
<1>1. Init => TypeOK /\ UntilCrossed
  BY InitType, InitUntilCrossed
<1>2. TypeOK /\ UntilCrossed /\ [Next]_allVars => (TypeOK /\ UntilCrossed)'
  BY StepType, StepUntilCrossed
<1>3. QED BY <1>1, <1>2, PTL DEF Spec

(* Nothing the studio wrote to workflow.rad is lost before edits cross,     *)
(* whatever fails and whatever is typed while a save runs, though only one  *)
(* of the two ways to write the file compares a revision (App.jsx, main.js, *)
(* RadishEditorService.mutate_document).                                    *)
THEOREM SourceAlways == Spec => SourceKept
<1>1. TypeOK /\ UntilCrossed /\ [Next]_allVars
        => [~ crossed' => disk.source \ Foreign \subseteq disk'.source]_allVars
  BY StepUntilCrossed DEF Own
<1>2. QED BY <1>1, UntilCrossedHolds, PTL DEF Spec, SourceKept

(* With autosave, as soon as all is quiet and no error shows the editor has *)
(* nothing left to write, and unless edits crossed the editor, the view and *)
(* the file agree, for any edits in any order.                              *)
THEOREM AgreesAtRest == Spec => []AgreeAtRest
<1>1. TypeOK /\ UntilCrossed => AgreeAtRest
  <2> SUFFICES ASSUME TypeOK, UntilCrossed, Quiet, Autosave, ~ editor.error
               PROVE  /\ editor.content = editor.saved
                      /\ ~ crossed => /\ ~ view.dirty
                                      /\ view.source \ Foreign = editor.content \ Foreign
                                      /\ editor.content \ Foreign = disk.source \ Foreign
    BY DEF AgreeAtRest
  <2>1. /\ ~ editor.timer /\ saving.at = "no" /\ \A d \in Drawn : calls[d].at = "idle"
    BY DEF Quiet
  <2>2. editor.content = editor.saved
    BY <2>1 DEF UntilCrossed, Scheduled
  <2>3. ASSUME ~ crossed
        PROVE  /\ ~ view.dirty
               /\ view.source \ Foreign = editor.content \ Foreign
               /\ editor.content \ Foreign = disk.source \ Foreign
    <3>1. SourceInv
      BY <2>3 DEF UntilCrossed
    <3>2. editor.shown = editor.content /\ ~ editor.dirty
      BY <2>1, <2>2, <3>1 DEF SourceInv, Saves
    <3>3. ~ view.dirty /\ Own(view.source) = Own(editor.content)
      BY <3>1, <3>2 DEF SourceInv, Shows
    <3>4. Own(editor.content) = Own(disk.source)
      BY <2>1, <2>2, <3>1 DEF SourceInv, Stored, Own
    <3>5. QED BY <3>3, <3>4 DEF Own
  <2>4. QED BY <2>2, <2>3
<1>2. QED BY <1>1, UntilCrossedHolds, PTL
=============================================================================
