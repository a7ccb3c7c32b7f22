-------------------------------- MODULE Pages --------------------------------
(***************************************************************************)
(* The pages of the playground in the tabs of a browser:                   *)
(* src/compiler/crystal/tools/playground/public/application.js and         *)
(* settings.js.  The main page keeps its code in the sessionStorage of the *)
(* tab and in the localStorage of all; the settings page edits settings    *)
(* that live in localStorage.                                              *)
(***************************************************************************)
EXTENDS Naturals, FiniteSets

CONSTANTS
  Tab, Code,
  Empty,          \* the empty code, which is no code to ||
  DefaultSource,  \* Environment.defaultSource
  None,           \* undefined, or null
  Key,            \* the settings
  Value,          \* what the field of each setting may hold
  Default,        \* Playground.settings.default
  Field,          \* what the settings page puts in the field for a stored value
  Token,          \* settingsGithubToken
  NoToken         \* '', its value without a token

VARIABLES
  storage,      \* localStorage "works", "throws" when it is written, or is "absent"
  source,       \* Environment.source
  local,        \* localStorage.lastCode
  settings,     \* the settings in localStorage
  session,      \* sessionStorage.lastCode of each tab
  page,         \* what each tab shows: "main", "settings" or "other"
  editor,       \* the code in the editor of each main page
  fields,       \* the fields of each settings page
  typed,        \* history: the last code of the main page in each tab, or what
                \* the page that opened the tab had saved; None in a new tab
  latest,       \* history: the last code typed in any tab, or left behind by a page
  choice,       \* history: what the user chose for each setting
  contested     \* history: a setting was chosen while a second settings page was open

codeVars == <<local, session, editor, typed, latest>>
settingVars == <<settings, fields, choice, contested>>
pagesVars == <<storage, source, codeVars, page, settingVars>>

ASSUME PagesAssumption ==
  /\ Empty \in Code /\ DefaultSource \in Code \ {Empty} /\ None \notin Code
  /\ Token \in Key /\ NoToken \in Value[Token]
  /\ Default \in [Key -> UNION {Value[k] : k \in Key}]
  /\ \A k \in Key : /\ Default[k] \in Value[k] /\ None \notin Value[k]
                    /\ Field[k][Default[k]] = Default[k]
                    /\ \A v \in Value[k] : /\ Field[k][v] \in Value[k]
                                           /\ Field[k][Field[k][v]] = Field[k][v]

hasStorage == storage = "works"

Truthy(c) == c \notin {Empty, None}

(* a || b                                                                  *)
Or(a, b) == IF Truthy(a) THEN a ELSE b

-----------------------------------------------------------------------------
(* A faulty variant of InitialCode: what all tabs share comes before what  *)
(* is the tab's own.                                                       *)
InitialCodeLocalFirst(t) ==
  Or(IF hasStorage THEN local ELSE None,
     Or(source, Or(IF hasStorage THEN session[t] ELSE None, DefaultSource)))

(* The code of a main page that is loaded.                                 *)
InitialCode(t) ==
  Or(IF hasStorage THEN session[t] ELSE None,
     Or(source, Or(IF hasStorage THEN local ELSE None, DefaultSource)))

(* saveAsLastCode; without storage it does nothing or raises.              *)
saveAsLastCode(t, c) ==
  IF hasStorage THEN local' = c /\ session' = [session EXCEPT ![t] = c]
                ELSE UNCHANGED <<local, session>>

(* A faulty variant of _readSetting: localStorage[key] || default: a blank *)
(* setting is taken for none.                                              *)
_readSettingOr(k) ==
  IF hasStorage /\ settings[k] \notin {None, NoToken} THEN settings[k] ELSE Default[k]

_readSetting(k) ==
  IF hasStorage /\ settings[k] # None THEN settings[k] ELSE Default[k]

(* Every field is saved.                                                   *)
saveSettings(fs) == settings' = IF hasStorage THEN fs ELSE settings

OpenMain(t) ==
  /\ page[t] = "other"
  /\ page' = [page EXCEPT ![t] = "main"]
  /\ editor' = [editor EXCEPT ![t] = InitialCode(t)]
  /\ typed' = [typed EXCEPT ![t] = InitialCode(t)]
  /\ UNCHANGED <<storage, source, local, session, latest, settingVars>>

(* A faulty variant of Edit: the strokes are not saved, only the code of a *)
(* page that is left.                                                      *)
EditUnsaved(t, c) ==
  /\ page[t] = "main" /\ c # editor[t]
  /\ editor' = [editor EXCEPT ![t] = c]
  /\ typed' = [typed EXCEPT ![t] = c]
  /\ latest' = c
  /\ UNCHANGED <<storage, source, local, session, page, settingVars>>

(* Any change of the code.                                                 *)
Edit(t, c) ==
  /\ page[t] = "main" /\ c # editor[t]
  /\ editor' = [editor EXCEPT ![t] = c]
  /\ saveAsLastCode(t, c)
  /\ typed' = [typed EXCEPT ![t] = c]
  /\ latest' = c
  /\ UNCHANGED <<storage, source, page, settingVars>>

(* A file was dropped on the page and has been read: setSource.            *)
LoadFile(t, c) == Edit(t, c)

LoadedFields == [k \in Key |-> Field[k][_readSetting(k)]]

OpenSettings(t) ==
  /\ page[t] = "other"
  /\ page' = [page EXCEPT ![t] = "settings"]
  /\ fields' = [fields EXCEPT ![t] = LoadedFields]
  /\ UNCHANGED <<storage, source, codeVars, settings, choice, contested>>

(* The Gist button.  Without a token it opens /settings.html in a new tab, *)
(* which the browser gives a copy of the opener's sessionStorage; no such  *)
(* page is served.  With a token the code is posted to github.com.         *)
SaveAsGist(t, u) ==
  /\ page[t] = "main"
  /\ _readSetting(Token) = NoToken
  /\ page[u] = "other" /\ typed[u] = None
  /\ session' = [session EXCEPT ![u] = session[t]]
  /\ typed' = [typed EXCEPT ![u] = session[t]]
  /\ UNCHANGED <<storage, source, local, page, editor, latest, settingVars>>

ChangeField(t, k, v) ==
  /\ page[t] = "settings" /\ v # fields[t][k]
  /\ fields' = [fields EXCEPT ![t][k] = v]
  /\ saveSettings(fields'[t])
  /\ choice' = [choice EXCEPT ![k] = v]
  /\ contested' = (contested \/ \E u \in Tab \ {t} : page[u] = "settings")
  /\ UNCHANGED <<storage, source, codeVars, page>>

(* The unload handlers of the two pages.                                   *)
LeaveMain(t) ==
  /\ page[t] = "main"
  /\ page' = [page EXCEPT ![t] = "other"]
  /\ editor' = [editor EXCEPT ![t] = None]
  /\ saveAsLastCode(t, editor[t])
  /\ latest' = editor[t]
  /\ UNCHANGED <<storage, source, typed, settingVars>>

LeaveSettings(t) ==
  /\ page[t] = "settings"
  /\ page' = [page EXCEPT ![t] = "other"]
  /\ fields' = [fields EXCEPT ![t] = None]
  /\ saveSettings(fields[t])
  /\ UNCHANGED <<storage, source, codeVars, choice, contested>>

(* The tab is closed after its page was left, and a new one opened.        *)
NewTab(t) ==
  /\ page[t] = "other" /\ typed[t] # None
  /\ session' = [session EXCEPT ![t] = None]
  /\ typed' = [typed EXCEPT ![t] = None]
  /\ UNCHANGED <<storage, source, local, page, editor, latest, settingVars>>

(* The browser crashes: no unload handler runs, and every tab is new.      *)
Crash ==
  /\ \E t \in Tab : page[t] # "other"
  /\ page' = [t \in Tab |-> "other"]
  /\ editor' = [t \in Tab |-> None] /\ fields' = [t \in Tab |-> None]
  /\ session' = [t \in Tab |-> None] /\ typed' = [t \in Tab |-> None]
  /\ UNCHANGED <<storage, source, local, latest, settings, choice, contested>>

PagesInit ==
  /\ storage \in {"works", "throws", "absent"}
  /\ source \in {None} \cup Code
  /\ local = None /\ settings = [k \in Key |-> None]
  /\ page = [t \in Tab |-> "other"]
  /\ session = [t \in Tab |-> None] /\ editor = [t \in Tab |-> None]
  /\ fields = [t \in Tab |-> None] /\ typed = [t \in Tab |-> None]
  /\ latest = None /\ choice = Default /\ contested = FALSE

PagesNext ==
  \/ \E t \in Tab : \/ OpenMain(t) \/ LeaveMain(t) \/ NewTab(t)
                    \/ OpenSettings(t) \/ LeaveSettings(t)
  \/ \E t \in Tab, c \in Code : Edit(t, c) \/ LoadFile(t, c)
  \/ \E t \in Tab, k \in Key : \E v \in Value[k] : ChangeField(t, k, v)
  \/ \E t, u \in Tab : SaveAsGist(t, u)
  \/ Crash

PagesSpec == PagesInit /\ [][PagesNext]_pagesVars

-----------------------------------------------------------------------------
(* "session is first so the user can navigates back and forth from pages"  *)
(* (the comment over the initial code): a main page comes back with the    *)
(* code it had in this tab, whatever other tabs did meanwhile, and in a    *)
(* tab that a page opened with the code that page had saved.  Not so the   *)
(* empty code.                                                             *)
BackAndForth ==
  [][\A t \in Tab : OpenMain(t) /\ hasStorage /\ Truthy(typed[t])
                      => editor'[t] = typed[t]]_pagesVars

(* "next time you open the playground the code will still be there"        *)
(* (the about page, of the code saved at every stroke): a new tab opens    *)
(* with the code that was typed or left last, in whatever tab and even if  *)
(* the browser crashed since, unless the server offers another.  The tab   *)
(* of the Gist button is not new: it opens with its opener's code as it    *)
(* was at the click, though that has changed meanwhile.                    *)
StillThere ==
  [][\A t \in Tab : OpenMain(t) /\ hasStorage /\ source = None
                    /\ typed[t] = None /\ Truthy(latest)
                      => editor'[t] = latest]_pagesVars

(* Settings mean what the user chose (_readSetting, and the settings page  *)
(* that loads and saves all of them whenever it is left): no visit of any  *)
(* page changes one that was not touched.  Two settings pages open at the  *)
(* same time do overwrite each other.                                      *)
SettingsKept ==
  hasStorage /\ ~contested =>
    \A k \in Key : Field[k][_readSetting(k)] = Field[k][choice[k]]

=============================================================================
