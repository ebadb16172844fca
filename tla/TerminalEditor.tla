--------------------------- MODULE TerminalEditor ---------------------------
(***************************************************************************)
(* The handoff of a Git message from a terminal of the desktop app to the   *)
(* Code workspace (frontend/electron/main.js, frontend/src/pages/App.jsx,   *)
(* frontend/src/components/CodeWorkspace.jsx).  Git, run in a terminal,     *)
(* writes its message to a file and starts the editor client, which asks    *)
(* the main process and waits for the answer.  The main process checks the  *)
(* request over a few awaits, registers it and sends it to the renderer,    *)
(* which opens the file in a tab; closing the tab saves the text and        *)
(* completes the request, and the client exits with 0.                      *)
(*                                                                          *)
(* Main process and renderer are one thread each: a handler runs up to its  *)
(* next await.  A text is the set of its parts: the message a client's git  *)
(* wrote, and the edits typed.  There is one window, and a shell does not   *)
(* exit while git runs in it.                                               *)
(***************************************************************************)
EXTENDS Naturals, FiniteSets

CONSTANTS Clients,      \* runs of the editor client, one for each message
          Terminals,
          Paths,        \* message files
          TerminalOf,   \* the terminal a client runs in
          PathOf,       \* the file it asks for
          Typed,        \* edits the user types
          HasWorkflow,  \* TRUE: a workflow with a project root is active
          MaxFailures,  \* bound on the failing reads, writes and opens
          MaxStray      \* bound on the writes under way whose editor is gone

ASSUME ClientsAssumption == /\ TerminalOf \in [Clients -> Terminals]
                            /\ PathOf \in [Clients -> Paths]
                            /\ Clients \cap Typed = {}
ASSUME OptionsAssumption == HasWorkflow \in BOOLEAN
ASSUME BoundAssumption   == {MaxFailures, MaxStray} \subseteq Nat

VARIABLES disk,         \* the message files
          answer,       \* what each client was answered
          handler,      \* handleTerminalEditorConnection: its await
          session,      \* terminalSessions
          requests,     \* terminalEditorRequests
          app,          \* whether the window is open, and the app quitting
          sent,         \* terminal-open-editor messages on their way
          completing,   \* terminal-editor-complete calls on their way
          asks,         \* terminalEditorRequestsRef: the requests of a path
          opening,      \* openLinkedCodeFile calls, with the tabs they captured
          tabs,         \* codeOpenPaths
          watched,      \* saveBeforeClosePaths, as last rendered
          editor,       \* TextCodeEditor or the session it left, by path
          stray,        \* writes whose editor is gone
          autosave,     \* settings.general.autosave
          failures      \* how many reads, writes and opens have failed

vars == <<disk, answer, handler, session, requests, app, sent, completing, asks,
          opening, tabs, watched, editor, stray, autosave, failures>>
main == <<handler, session, requests, app>>
renderer == <<sent, completing, asks, opening, tabs, watched, editor, stray, autosave>>

Texts == SUBSET (Clients \cup Typed)
Closed == [at |-> "none", content |-> {}, saved |-> {}, dirty |-> FALSE,
           timer |-> FALSE, saving |-> "no", text |-> {}]

-----------------------------------------------------------------------------
(* Faults: definitions as a plausible mistake would have them.              *)

AnsweredAgain(who, reply) == [c \in Clients |-> IF c \in who THEN reply ELSE answer[c]]
AskedByPath(c) == [asks EXCEPT ![PathOf[c]] = @ \cup {PathOf[c]}]
OpenStateAlone(list, p) == {p}
NotSavingStuck(e) == [e EXCEPT !.text = {}]
RequiredNever == {}
CompletedNone(p) == {}

-----------------------------------------------------------------------------
(* The main process.                                                        *)

\* finishTerminalEditorRequest, for each of some requests: a request that is
\* gone was answered before.
Answered(who, reply) ==
    [c \in Clients |-> IF c \in who \cap requests THEN reply ELSE answer[c]]

\* The writes under way of the editors of some paths.
WritesOf(paths) == {[path |-> p, text |-> editor[p].text] :
                       p \in {q \in paths : editor[q].saving # "no"}}

\* cancelTerminalEditorRequests of each of some terminals.
RequestsOf(terminals) == {c \in requests : TerminalOf[c] \in terminals}

Waiting(c) == handler[c] # "none" \/ c \in requests

\* Git writes its message and starts the client, which connects.
Ask(c) ==
    /\ answer[c] = "idle" /\ session[TerminalOf[c]]
    /\ \A d \in Clients : TerminalOf[d] = TerminalOf[c] => answer[d] # "waiting"
    /\ disk' = [disk EXCEPT ![PathOf[c]] = {c}]
    /\ IF app.quitting                       \* the socket is gone
       THEN answer' = [answer EXCEPT ![c] = "failed"] /\ UNCHANGED handler
       ELSE /\ answer' = [answer EXCEPT ![c] = "waiting"]
            /\ handler' = [handler EXCEPT ![c] = "accepted"]
    /\ UNCHANGED <<session, requests, app, failures>> /\ UNCHANGED renderer

\* The request is read: its terminal must be open.
Check(c) ==
    /\ handler[c] = "accepted"
    /\ IF session[TerminalOf[c]]
       THEN handler' = [handler EXCEPT ![c] = "checked"] /\ UNCHANGED answer
       ELSE /\ handler' = [handler EXCEPT ![c] = "none"]
            /\ answer' = [answer EXCEPT ![c] = "failed"]
    /\ UNCHANGED <<disk, session, requests, app, failures>> /\ UNCHANGED renderer

\* The file cannot be read, or is not an editable text.
Refuse(c) ==
    /\ handler[c] = "checked" /\ failures < MaxFailures
    /\ failures' = failures + 1
    /\ handler' = [handler EXCEPT ![c] = "none"]
    /\ answer' = [answer EXCEPT ![c] = "failed"]
    /\ UNCHANGED <<disk, session, requests, app>> /\ UNCHANGED renderer

\* The file is read and the grant registered: the request is registered and
\* sent to the window, if it is still there.
Register(c) ==
    /\ handler[c] = "checked"
    /\ handler' = [handler EXCEPT ![c] = "none"]
    /\ IF app.window
       THEN /\ requests' = requests \cup {c} /\ sent' = sent \cup {c}
            /\ UNCHANGED answer
       ELSE /\ answer' = [answer EXCEPT ![c] = "failed"]
            /\ UNCHANGED <<requests, sent>>
    /\ UNCHANGED <<disk, session, app, failures, completing, asks, opening, tabs,
                   watched, editor, stray, autosave>>

\* completeTerminalEditor: a request that is gone is not answered again.
Complete(c) ==
    /\ c \in completing
    /\ completing' = completing \ {c}
    /\ requests' = requests \ {c}
    /\ answer' = Answered({c}, "ok")
    /\ UNCHANGED <<disk, handler, session, app, failures, sent, asks, opening, tabs,
                   watched, editor, stray, autosave>>

\* closeTerminal: its requests are cancelled.
CloseTerminal(t) ==
    /\ app.window /\ session[t]
    /\ session' = [session EXCEPT ![t] = FALSE]
    /\ requests' = requests \ RequestsOf({t})
    /\ answer' = Answered(RequestsOf({t}), "failed")
    /\ UNCHANGED <<disk, handler, app, failures>> /\ UNCHANGED renderer

\* The shell exits: onExit forgets the session.
TerminalExits(t) ==
    /\ session[t] /\ \A c \in Clients : TerminalOf[c] = t => answer[c] # "waiting"
    /\ session' = [session EXCEPT ![t] = FALSE]
    /\ UNCHANGED <<disk, answer, handler, requests, app, failures>> /\ UNCHANGED renderer

\* The window's closed handler closes its terminals.  The renderer is gone, but
\* for the writes it has asked for.
WindowClosed ==
    /\ app.window
    /\ app' = [app EXCEPT !.window = FALSE]
    /\ LET open == {t \in Terminals : session[t]}
       IN /\ requests' = requests \ RequestsOf(open)
          /\ answer' = Answered(RequestsOf(open), "failed")
    /\ session' = [t \in Terminals |-> FALSE]
    /\ sent' = {} /\ completing' = {} /\ asks' = [p \in Paths |-> {}]
    /\ opening' = {} /\ tabs' = {} /\ watched' = {}
    /\ editor' = [p \in Paths |-> Closed]
    /\ stray' = stray \cup WritesOf(Paths)
    /\ UNCHANGED <<disk, handler, autosave, failures>>

\* before-quit: closeTerminalEditorServer answers every request, and then
\* closeAllTerminals closes the sessions.
BeforeQuit ==
    /\ ~app.quitting
    /\ app' = [app EXCEPT !.quitting = TRUE]
    /\ requests' = {}
    /\ answer' = Answered(requests, "failed")
    /\ session' = [t \in Terminals |-> FALSE]
    /\ UNCHANGED <<disk, handler, failures>> /\ UNCHANGED renderer

\* The process ends: a client whose socket closes fails.
ProcessExits ==
    /\ app.quitting /\ ~app.window
    /\ \E c \in Clients : answer[c] = "waiting"
    /\ answer' = [c \in Clients |-> IF answer[c] = "waiting" THEN "failed" ELSE answer[c]]
    /\ handler' = [c \in Clients |-> "none"]
    /\ requests' = {}
    /\ UNCHANGED <<disk, session, app, failures>> /\ UNCHANGED renderer

-----------------------------------------------------------------------------
(* The renderer.                                                            *)

\* The paths whose tabs are saved before they close, as App renders them.
SaveBeforeClose(asked) == {p \in Paths : asked[p] # {}}
AskedAlso(c) == [asks EXCEPT ![PathOf[c]] = @ \cup {c}]

\* terminal-open-editor: the request is noted and openLinkedCodeFile called.
Receive(c) ==
    /\ c \in sent
    /\ sent' = sent \ {c}
    /\ asks' = AskedAlso(c)
    /\ opening' = opening \cup {[client |-> c, list |-> tabs]}
    /\ UNCHANGED <<disk, answer, failures, completing, tabs, watched, editor, stray, autosave>>
    /\ UNCHANGED main

\* openCodeFile: the tabs are those captured by the call, and the file.
OpenState(list, p) == list \cup {p}

\* The editors once the given tabs are shown: one that appears reads its file
\* unless it left a session, one that disappears keeps its session.
Mounted(shown) ==
    [p \in Paths |->
        IF p \in shown /\ editor[p].at = "none" THEN [Closed EXCEPT !.at = "loading"]
        ELSE IF p \notin shown /\ editor[p].at # "ready" THEN Closed
        ELSE IF p \notin shown
        THEN [editor[p] EXCEPT !.timer = FALSE, !.saving = "no", !.text = {}]
        ELSE editor[p]]

\* The tabs become those given: a write whose editor disappears goes on.
Shown(list) ==
    /\ tabs' = list
    /\ editor' = Mounted(list)
    /\ stray' = stray \cup WritesOf(Paths \ list)
    /\ Cardinality(stray') <= MaxStray
    /\ watched' = SaveBeforeClose(asks)

\* openLinkedCodeFile has found the file (pathInfo answers with the path it was
\* asked about).  Without a workflow that has a project root, openCodeFile
\* returns.
Open(call) ==
    /\ call \in opening
    /\ opening' = opening \ {call}
    /\ IF HasWorkflow
       THEN Shown(OpenState(call.list, PathOf[call.client]))
       ELSE UNCHANGED <<tabs, watched, editor, stray>>
    /\ UNCHANGED <<disk, answer, failures, sent, completing, asks, autosave>>
    /\ UNCHANGED main

\* trustProjectRoot or getPathInfo rejects, or the path is no file any more:
\* nobody catches what openLinkedCodeFile throws.
OpenFails(call) ==
    /\ call \in opening /\ failures < MaxFailures
    /\ failures' = failures + 1
    /\ opening' = opening \ {call}
    /\ UNCHANGED <<disk, answer, sent, completing, asks, tabs, watched, editor, stray,
                   autosave>>
    /\ UNCHANGED main

\* The user opens a message file by hand.
OpenByHand(p) ==
    /\ HasWorkflow /\ app.window /\ p \notin tabs
    /\ Shown(OpenState(tabs, p))
    /\ UNCHANGED <<disk, answer, failures, sent, completing, asks, opening, autosave>>
    /\ UNCHANGED main

\* The user turns the autosave on or off: turned off, it stops its timers.
ChangeAutosave ==
    /\ app.window
    /\ autosave' = ~autosave
    /\ editor' = [p \in Paths |-> [editor[p] EXCEPT !.timer = @ /\ ~autosave]]
    /\ watched' = SaveBeforeClose(asks)
    /\ UNCHANGED <<disk, answer, failures, sent, completing, asks, opening, tabs, stray>>
    /\ UNCHANGED main

\* App renders for another reason.
Render ==
    /\ watched # SaveBeforeClose(asks)
    /\ watched' = SaveBeforeClose(asks)
    /\ UNCHANGED <<disk, answer, failures, sent, completing, asks, opening, tabs, editor,
                   stray, autosave>>
    /\ UNCHANGED main

\* The editor has read its file, or cannot.
Loaded(p) ==
    /\ editor[p].at = "loading"
    /\ \/ /\ editor' = [editor EXCEPT ![p] = [Closed EXCEPT !.at = "ready",
                                       !.content = disk[p], !.saved = disk[p]]]
          /\ UNCHANGED failures
       \/ /\ failures < MaxFailures /\ failures' = failures + 1
          /\ editor' = [editor EXCEPT ![p] = [Closed EXCEPT !.at = "unreadable"]]
    /\ UNCHANGED <<disk, answer, sent, completing, asks, opening, tabs, watched, stray,
                   autosave>>
    /\ UNCHANGED main

\* onDidChangeContent, in the tab in front: its state reaches App.
Type(p, e) ==
    /\ p \in tabs /\ editor[p].at = "ready" /\ e \notin editor[p].content
    /\ LET content == editor[p].content \cup {e}
       IN editor' = [editor EXCEPT ![p].content = content, ![p].timer = autosave,
                                   ![p].dirty = content # editor[p].saved]
    /\ watched' = SaveBeforeClose(asks)
    /\ UNCHANGED <<disk, answer, failures, sent, completing, asks, opening, tabs, stray,
                   autosave>>
    /\ UNCHANGED main

\* save(): it finds the text changed and no save running.
Save(p, why) ==
    /\ editor[p].saving = "no" /\ editor[p].content # editor[p].saved
    /\ editor' = [editor EXCEPT ![p].saving = why, ![p].text = editor[p].content,
                                ![p].timer = FALSE]

\* The autosave saves the tab, or the user does.
AutosaveFires(p) == editor[p].timer /\ Save(p, "saving")
UserSaves(p) == p \in tabs /\ Save(p, "saving")
SaveTab(p) ==
    /\ AutosaveFires(p) \/ UserSaves(p)
    /\ UNCHANGED <<disk, answer, failures, sent, completing, asks, opening, tabs, watched,
                   stray, autosave>>
    /\ UNCHANGED main

\* closeCodeFiles: the requests of the path are completed.
Completed(p) == asks[p]
FinishClosing(p) ==
    /\ tabs' = tabs \ {p}
    /\ editor' = [editor EXCEPT ![p] = Closed]
    /\ completing' = completing \cup Completed(p)
    /\ asks' = [asks EXCEPT ![p] = {}]
    /\ watched' = SaveBeforeClose(asks')

\* requiredSavePaths: the changed tabs saved without a question.
RequiredSaves == {p \in watched : editor[p].dirty}

\* closeWorkspacePaths of a tab: a changed one is saved first if a request
\* waits for it, as rendered, and stays if a save is running; else the user
\* agrees to lose the changes, or, without autosave, has the prompt save them.
CloseTab(p) ==
    /\ p \in tabs
    /\ IF p \in RequiredSaves
       THEN Save(p, "closing") /\ UNCHANGED <<completing, asks, tabs, watched, stray>>
       ELSE \/ /\ FinishClosing(p)
               /\ stray' = stray \cup WritesOf({p}) /\ Cardinality(stray') <= MaxStray
            \/ /\ editor[p].dirty /\ ~autosave
               /\ Save(p, "closing") /\ UNCHANGED <<completing, asks, tabs, watched, stray>>
    /\ UNCHANGED <<disk, answer, failures, sent, opening, autosave>> /\ UNCHANGED main

\* The state save() leaves.
NotSaving(e) == [e EXCEPT !.saving = "no", !.text = {}]
Saved(e) ==
    LET changed == e.content # e.text
    IN [NotSaving(e) EXCEPT !.saved = e.text, !.dirty = changed,
                            !.timer = @ \/ (changed /\ autosave)]

\* The text is written.  A close that waited for it goes on, whatever was
\* typed meanwhile; else the autosave sees to that.
SaveReturns(p) ==
    /\ editor[p].saving # "no"
    /\ disk' = [disk EXCEPT ![p] = editor[p].text]
    /\ IF editor[p].saving = "closing"
       THEN FinishClosing(p)
       ELSE /\ editor' = [editor EXCEPT ![p] = Saved(@)]
            /\ UNCHANGED <<completing, asks, tabs, watched>>
    /\ UNCHANGED <<answer, failures, sent, opening, stray, autosave>> /\ UNCHANGED main

\* The write of an editor that is gone ends: save() finds its model disposed,
\* and a close that waited for it is given up.
StrayEnds(write) ==
    /\ write \in stray
    /\ stray' = stray \ {write}
    /\ \/ disk' = [disk EXCEPT ![write.path] = write.text] /\ UNCHANGED failures
       \/ UNCHANGED disk /\ failures < MaxFailures /\ failures' = failures + 1
    /\ UNCHANGED <<answer, sent, completing, asks, opening, tabs, watched, editor, autosave>>
    /\ UNCHANGED main

\* The write fails: the error shows, and a close that waited is given up.
SaveFails(p) ==
    /\ editor[p].saving # "no" /\ failures < MaxFailures
    /\ failures' = failures + 1
    /\ editor' = [editor EXCEPT ![p] = NotSaving(@)]
    /\ UNCHANGED <<disk, answer, sent, completing, asks, opening, tabs, watched, stray,
                   autosave>>
    /\ UNCHANGED main

-----------------------------------------------------------------------------
Init ==
    /\ disk = [p \in Paths |-> {}]
    /\ answer = [c \in Clients |-> "idle"]
    /\ handler = [c \in Clients |-> "none"]
    /\ session = [t \in Terminals |-> TRUE]
    /\ requests = {}
    /\ app = [window |-> TRUE, quitting |-> FALSE]
    /\ sent = {} /\ completing = {} /\ opening = {} /\ tabs = {} /\ watched = {}
    /\ stray = {}
    /\ asks = [p \in Paths |-> {}]
    /\ editor = [p \in Paths |-> Closed]
    /\ autosave = TRUE
    /\ failures = 0

Next ==
    \/ \E c \in Clients : Ask(c) \/ Check(c) \/ Refuse(c) \/ Register(c) \/ Complete(c)
                          \/ Receive(c)
    \/ \E t \in Terminals : CloseTerminal(t) \/ TerminalExits(t)
    \/ WindowClosed \/ BeforeQuit \/ ProcessExits \/ Render \/ ChangeAutosave
    \/ \E call \in opening : Open(call) \/ OpenFails(call)
    \/ \E write \in stray : StrayEnds(write)
    \/ \E p \in Paths : OpenByHand(p) \/ Loaded(p) \/ SaveTab(p) \/ CloseTab(p) \/ SaveReturns(p)
                        \/ SaveFails(p) \/ \E e \in Typed : Type(p, e)

Spec == Init /\ [][Next]_vars

\* window-all-closed: except on macOS, the app quits with its last window.
QuitWithWindow == ~app.window /\ BeforeQuit

\* Handlers, messages, reads and writes end, the app quits with
\* its window and the process exits, and the user closes every tab some time.
Fairness ==
    /\ WF_vars(\E c \in Clients : Check(c) \/ Register(c) \/ Complete(c) \/ Receive(c))
    /\ WF_vars(\E call \in opening : Open(call) \/ OpenFails(call))
    /\ WF_vars(\E write \in stray : StrayEnds(write)) /\ WF_vars(ProcessExits)
    /\ WF_vars(QuitWithWindow)
    /\ \A p \in Paths : WF_vars(Loaded(p)) /\ WF_vars(SaveReturns(p)) /\ SF_vars(CloseTab(p))

FairSpec == Spec /\ Fairness

-----------------------------------------------------------------------------
\* Every variable has the shape of the map, set or call it stands for.
TypeOK ==
    /\ disk \in [Paths -> Texts]
    /\ answer \in [Clients -> {"idle", "waiting", "ok", "failed"}]
    /\ handler \in [Clients -> {"none", "accepted", "checked"}]
    /\ session \in [Terminals -> BOOLEAN]
    /\ requests \subseteq Clients
    /\ app \in [window : BOOLEAN, quitting : BOOLEAN]
    /\ sent \subseteq Clients /\ completing \subseteq Clients
    /\ asks \in [Paths -> SUBSET Clients]
    /\ opening \subseteq [client : Clients, list : SUBSET Paths]
    /\ tabs \subseteq Paths /\ watched \subseteq Paths
    /\ stray \subseteq [path : Paths, text : Texts]
    /\ editor \in [Paths -> [at : {"none", "loading", "ready", "unreadable"},
                      content : Texts, saved : Texts, dirty : BOOLEAN, timer : BOOLEAN,
                      saving : {"no", "saving", "closing"}, text : Texts]]
    /\ autosave \in BOOLEAN
    /\ failures \in 0..MaxFailures

\* A client waits only for an answer somebody still owes it: the handler of its
\* connection, or a registered request, which the open window is about to read,
\* has noted under its file or is completing.
RequestsTracked ==
    \A c \in Clients :
        /\ answer[c] = "waiting" <=> Waiting(c)
        /\ c \in requests /\ app.window =>
              c \in sent \/ c \in asks[PathOf[c]] \/ c \in completing

\* The renderer has noted the request of c, and no longer opens its file.
Noted(c) == c \in asks[PathOf[c]] /\ \A call \in opening : call.client # c
Stranded(c) == Noted(c) /\ PathOf[c] \notin tabs \cap watched

\* "commit, merge, and rebase messages open in the Code workspace": a request
\* the renderer has noted has a tab, or its file is being opened.
RequestHasTab == \A c \in Clients : Noted(c) => PathOf[c] \in tabs

\* A request that has its tab, to be saved before it closes, keeps both until it
\* is completed, and one whose file is opened gets them.  Only an opening undoes
\* that: its own that came to nothing (820-828, 740), or one of another file
\* that brings back the tabs of a rendering before this one was opened (743).
StrandedOnlyByOpening ==
    [][\A c \in Clients : Stranded(c)' /\ ~Stranded(c) =>
          \E call \in opening \ opening' :
             \/ call.client = c /\ tabs' = tabs
             \/ PathOf[call.client] # PathOf[c] /\ PathOf[c] \notin call.list]_vars

\* "... and save before the editor request completes": when the requests of a
\* tab are completed, its file holds the text the tab showed.  Excepted are the
\* text typed while the close was saving (252), a request noted since App last
\* rendered (3246) and a file that others wrote since the tab read or saved it.
HandoffSaved ==
    [][\A c \in completing' \ completing :
          LET p == PathOf[c]
              e == editor[p]
              shown == IF e.saving = "closing" THEN e.text ELSE e.content
          IN e.at = "ready" /\ p \in watched /\ (e.saving = "closing" \/ disk[p] = e.saved)
             => disk'[p] = shown]_vars

\* An answer is final, and git goes on with 0 only if its request was completed
\* while it was registered, by the close of its tab.
AnswersStand ==
    [][\A c \in Clients :
          /\ answer[c] \in {"ok", "failed"} => answer'[c] = answer[c]
          /\ answer[c] # "ok" /\ answer'[c] = "ok" =>
                c \in completing /\ c \in requests]_vars

\* Git is answered if the user closes the tabs, with terminals, window and app
\* closed and writes failing at any time, unless its request has lost its tab.
GitReturns ==
    \A c \in Clients :
        answer[c] = "waiting" ~> \/ answer[c] \in {"ok", "failed"}
                                 \/ Noted(c) /\ PathOf[c] \notin tabs
=============================================================================
